---- MODULE Spec2Model ----
(***************************************************************************)
(* Task-ingestion pipeline of the Dhriti.AI backend: the import            *)
(* orchestrator (routes/task_ingest.py: json_to_excel,                     *)
(* process_server_file, preview_import, confirm_import) over the mapping   *)
(* engine (services/task_ingest.py: process_row and its helpers), the      *)
(* upload directory, the permanent import-files directory and the two      *)
(* persisted tables project_tasks and project_import_files.                *)
(*                                                                         *)
(* A request handler runs in its own worker.  preview_import only reads    *)
(* and is one step.  confirm_import is cut where it touches shared state:  *)
(* reading the source (lines 309-356), the existing-id pre-check           *)
(* (358-388), storing the import file (390-428) and the commit with the    *)
(* artifact cleanup (430-465).                                             *)
(***************************************************************************)
EXTENDS Integers, Sequences, FiniteSets, TLC

VARIABLES
    tasks,        \* project_tasks: set of committed rows
    importFiles,  \* project_import_files: set of committed rows
    uploads,      \* UPLOAD_ROOT: upload id -> artifacts of that upload
    permFiles,    \* IMPORT_FILES_ROOT: stored file names
    nextUpload,   \* number of upload ids handed out so far
    nreq,         \* number of preview/confirm requests started so far
    wk,           \* worker -> state of the request it is handling
    eng,          \* one run of the mapping engine over inline rows: its passes
    conv,         \* one conversion of an uploaded JSON document to flat records
    rd,           \* one read of a source of rows: a worksheet streamed, or inline rows
    qc            \* the tasks under quality control and the QC requests in progress

vars == <<tasks, importFiles, uploads, permFiles, nextUpload, nreq, wk, eng, conv, rd, qc>>

-----------------------------------------------------------------------------
(* Bounds of the model *)

MaxUploads == 2
MaxRequests == 2

(* Program constants *)

PREVIEW_LIMIT == 200

-----------------------------------------------------------------------------
(* Python values.  A value carries its type and its str() form. *)

NoneV == [t |-> "none", s |-> "None"]
StrV(x) == [t |-> "str", s |-> x]
DateV(x) == [t |-> "datetime", s |-> x]
IntV(n) == [t |-> "int", s |-> ToString(n), n |-> n]
BoolV(b) == [t |-> "bool", s |-> IF b THEN "True" ELSE "False", b |-> b]
\* a list and a dict with their items in order; s is the str() form
ListV(items, s) == [t |-> "list", s |-> s, items |-> items]
DictV(items, s) == [t |-> "dict", s |-> s, items |-> items]

\* dict.get(key): None when the key is absent
Get(row, key) == IF key \in DOMAIN row THEN row[key] ELSE NoneV

\* str.strip() over the strings of the model
Strip(x) ==
    CASE x = "  " -> ""
      [] x = " T1 " -> "T1"
      [] x = " trim " -> "trim"
      [] x = " TRIM " -> "TRIM"
      [] OTHER -> x

\* str.lower() over the strings of the model
Lower(x) ==
    CASE x = "T1" -> "t1"
      [] x = "T2" -> "t2"
      [] x = " T1 " -> " t1 "
      [] x = "Alpha" -> "alpha"
      [] x = "Beta" -> "beta"
      [] x = "Gamma" -> "gamma"
      [] x = "True" -> "true"
      [] x = "False" -> "false"
      [] x = "None" -> "none"
      [] x = "TRIM" -> "trim"
      [] x = "Name" -> "name"
      [] x = "File_URL" -> "file_url"
      [] OTHER -> x

\* str.upper() over the strings of the model
Upper(x) ==
    CASE x = "Alpha" -> "ALPHA"
      [] x = "Beta" -> "BETA"
      [] x = "Gamma" -> "GAMMA"
      [] OTHER -> x

\* int(text): [ok, n] over the strings of the model; ok = FALSE is ValueError
ParseInt(text) ==
    CASE text = "0" -> [ok |-> TRUE, n |-> 0]
      [] text = "1" -> [ok |-> TRUE, n |-> 1]
      [] text = "7" -> [ok |-> TRUE, n |-> 7]
      [] OTHER -> [ok |-> FALSE, n |-> 0]

\* the result of a transform: a value, or the exception it raised
Returned(v) == [ok |-> TRUE, value |-> v, error |-> ""]
Raised(error) == [ok |-> FALSE, value |-> NoneV, error |-> error]

transform_trim(v) == IF v.t = "none" THEN NoneV ELSE StrV(Strip(v.s))
transform_lower(v) == IF v.t = "none" THEN NoneV ELSE StrV(Lower(v.s))
transform_upper(v) == IF v.t = "none" THEN NoneV ELSE StrV(Upper(v.s))

\* int(default or 0)
int_of_default(default) ==
    IF default = "" THEN Returned(IntV(0))
    ELSE IF ParseInt(default).ok THEN Returned(IntV(ParseInt(default).n))
    ELSE Raised("invalid literal for int() with base 10: '" \o default \o "'")

\* _transform_to_int
transform_to_int(v, default) ==
    IF v.t = "none" \/ (v.t = "str" /\ v.s = "") THEN int_of_default(default)
    ELSE IF v.t = "bool" THEN Returned(IntV(IF v.b THEN 1 ELSE 0))
    ELSE IF v.t = "int" THEN Returned(v)
    ELSE IF Strip(v.s) = "" THEN int_of_default(default)
    ELSE IF ParseInt(Strip(v.s)).ok THEN Returned(IntV(ParseInt(Strip(v.s)).n))
    ELSE int_of_default(default)

\* the names of _TRANSFORMS the model applies
ModelledTransforms == {"trim", "lower", "upper", "to_int"}

\* text.split("(", 1) of a stripped transform that has "(" and ends with ")":
\* the name and the argument string without the closing parenthesis
SplitCall(text) ==
    CASE text = "to_int(x)" -> [has |-> TRUE, name |-> "to_int", args_str |-> "x"]
      [] text = "to_int(7)" -> [has |-> TRUE, name |-> "to_int", args_str |-> "7"]
      [] OTHER -> [has |-> FALSE, name |-> text, args_str |-> ""]

\* _split_args over the argument strings of the model (no comma, no quote)
split_args(source) == IF Strip(source) = "" THEN <<>> ELSE <<Strip(source)>>

\* _parse_transform: [ok, name, args]; an empty transform is a TransformError
parse_transform(transform) ==
    IF Strip(transform) = "" THEN [ok |-> FALSE, name |-> "", args |-> <<>>]
    ELSE IF ~SplitCall(Strip(transform)).has
    THEN [ok |-> TRUE, name |-> Lower(Strip(transform)), args |-> <<>>]
    ELSE [ok |-> TRUE, name |-> Lower(Strip(SplitCall(Strip(transform)).name)),
          args |-> split_args(SplitCall(Strip(transform)).args_str)]

\* fn(result, *args): the transform of that name applied to a value
transform_by_name(name, args, value) ==
    CASE name = "trim" -> Returned(transform_trim(value))
      [] name = "lower" -> Returned(transform_lower(value))
      [] name = "upper" -> Returned(transform_upper(value))
      [] name = "to_int" ->
            IF Len(args) > 1 THEN Raised("takes from 1 to 2 positional arguments")
            ELSE transform_to_int(value, IF args = <<>> THEN "0" ELSE args[1])

\* one round of the loop of apply_transforms, p the parsed transform
apply_one(p, value) ==
    IF ~p.ok THEN Raised("empty transform")
    ELSE IF p.name \notin ModelledTransforms
    THEN Raised("unknown transform '" \o p.name \o "'")
    ELSE transform_by_name(p.name, p.args, value)

\* the loop goes on with the result of a round, or ends with its TransformError
RECURSIVE apply_transforms(_, _)
apply_rest(r, transforms) ==
    IF r.ok THEN apply_transforms(r.value, transforms) ELSE r

\* apply_transforms: [ok, value], or [ok = FALSE, error] for a TransformError
apply_transforms(value, transforms) ==
    IF transforms = <<>> THEN Returned(value)
    ELSE apply_rest(apply_one(parse_transform(Head(transforms)), value), Tail(transforms))

\* value in (None, "", [])
IsEmptyValue(v) ==
    \/ v.t = "none"
    \/ (v.t = "str" /\ v.s = "")
    \/ (v.t = "list" /\ v.items = <<>>)

\* an issue message: the f-string's text and the value interpolated in it
Msg(text, arg) == [text |-> text, arg |-> arg]

\* uuid4(): an identifier no other call returns; the model names it after
\* the request and the row the call is made for
Uuid(serial, row_number) == "uuid-" \o ToString(serial) \o "-" \o ToString(row_number)

-----------------------------------------------------------------------------
(* Safe expression evaluator *)

\* nodes of the syntax tree ast.parse builds
Expression(body) == [node |-> "Expression", body |-> body]
Constant(value) == [node |-> "Constant", value |-> value]
Name(id) == [node |-> "Name", id |-> id]
BinOp(left, op, right) == [node |-> "BinOp", left |-> left, op |-> op, right |-> right]
UnaryOp(op, operand) == [node |-> "UnaryOp", op |-> op, operand |-> operand]
Subscript(value, slice) == [node |-> "Subscript", value |-> value, slice |-> slice]
Attribute(value, attr) == [node |-> "Attribute", value |-> value, attr |-> attr]
Call(func, args) == [node |-> "Call", func |-> func, args |-> args]
JoinedStr(values) == [node |-> "JoinedStr", values |-> values]
FormattedValue(value) == [node |-> "FormattedValue", value |-> value]
Leaf(kind) == [node |-> kind]

\* ast.parse(expression, mode="eval") over the expressions of the model:
\* [ok, tree]; ok = FALSE is SyntaxError
ParseExpression(text) ==
    CASE text = "seq" -> [ok |-> TRUE, tree |-> Expression(Name("seq"))]
      [] text = "seq + 1" ->
            [ok |-> TRUE, tree |-> Expression(BinOp(Name("seq"), "Add", Constant(IntV(1))))]
      [] text = "-seq" -> [ok |-> TRUE, tree |-> Expression(UnaryOp("USub", Name("seq")))]
      [] text = "f'T-{excel_row}'" ->
            [ok |-> TRUE, tree |-> Expression(JoinedStr(
                <<Constant(StrV("T-")), FormattedValue(Name("excel_row"))>>))]
      [] text = "row['id']" ->
            [ok |-> TRUE, tree |-> Expression(Subscript(Name("row"), Constant(StrV("id"))))]
      [] text = "row['zz']" ->
            [ok |-> TRUE, tree |-> Expression(Subscript(Name("row"), Constant(StrV("zz"))))]
      [] text = "row['id'] + 1" ->
            [ok |-> TRUE, tree |-> Expression(BinOp(
                Subscript(Name("row"), Constant(StrV("id"))), "Add", Constant(IntV(1))))]
      [] text = "''" -> [ok |-> TRUE, tree |-> Expression(Constant(StrV("")))]
      [] text = "len(row)" ->
            [ok |-> TRUE, tree |-> Expression(Call(Name("len"), <<Name("row")>>))]
      [] text = "row.id" -> [ok |-> TRUE, tree |-> Expression(Attribute(Name("row"), "id"))]
      [] text = "row['id'].real" ->
            [ok |-> TRUE, tree |-> Expression(Attribute(
                Subscript(Name("row"), Constant(StrV("id"))), "real"))]
      [] text = "name" -> [ok |-> TRUE, tree |-> Expression(Name("name"))]
      [] text = "seq['id']" ->
            [ok |-> TRUE, tree |-> Expression(Subscript(Name("seq"), Constant(StrV("id"))))]
      [] text = "row[seq]" ->
            [ok |-> TRUE, tree |-> Expression(Subscript(Name("row"), Name("seq")))]
      [] OTHER -> [ok |-> FALSE, tree |-> Leaf("none")]

\* ast.iter_child_nodes: the child nodes in field order
iter_child_nodes(n) ==
    CASE n.node = "Expression" -> <<n.body>>
      [] n.node = "BinOp" -> <<n.left, Leaf(n.op), n.right>>
      [] n.node = "UnaryOp" -> <<Leaf(n.op), n.operand>>
      [] n.node = "Name" -> <<Leaf("Load")>>
      [] n.node = "Subscript" -> <<n.value, n.slice, Leaf("Load")>>
      [] n.node = "Attribute" -> <<n.value, Leaf("Load")>>
      [] n.node = "Call" -> <<n.func>> \o n.args
      [] n.node = "JoinedStr" -> n.values
      [] n.node = "FormattedValue" -> <<n.value>>
      [] OTHER -> <<>>

\* ast.walk: the nodes breadth-first, todo the queue
RECURSIVE walk(_)
walk(todo) ==
    IF todo = <<>> THEN <<>>
    ELSE <<Head(todo)>> \o walk(Tail(todo) \o iter_child_nodes(Head(todo)))

\* ast.Slice and ast.Index never occur in the trees of the model
ALLOWED_AST_NODES ==
    {"Expression", "BinOp", "UnaryOp", "Constant", "Name", "Load", "Add", "Sub",
     "Mult", "Div", "Mod", "JoinedStr", "FormattedValue", "Subscript", "Slice",
     "Index", "Attribute"}

ALLOWED_NAMES == {"row_index", "excel_row", "seq", "row"}

\* the body of the loop of _validate_ast for the tests the attribute test
\* does not stop
validate_subscript(child) ==
    IF child.node # "Subscript" THEN ""
    ELSE IF child.value.node # "Name" THEN "Only row[...] subscripts are allowed"
    ELSE IF child.value.id # "row" THEN "Only row[...] subscripts are allowed"
    ELSE IF child.slice.node = "Constant" THEN ""
    ELSE "row[...] subscripts must use constant keys"

\* the attribute test left out: Attribute is in ALLOWED_AST_NODES
validate_child_allowing_attribute(child) ==
    IF child.node \notin ALLOWED_AST_NODES
    THEN "Expression uses unsupported element '" \o child.node \o "'"
    ELSE IF child.node = "Name" /\ child.id \notin ALLOWED_NAMES
    THEN "Name '" \o child.id \o "' is not allowed in expressions"
    ELSE validate_subscript(child)

\* the body of the loop of _validate_ast: "" or the message of the ValueError
validate_child(child) ==
    IF child.node \notin ALLOWED_AST_NODES
    THEN "Expression uses unsupported element '" \o child.node \o "'"
    ELSE IF child.node = "Name" /\ child.id \notin ALLOWED_NAMES
    THEN "Name '" \o child.id \o "' is not allowed in expressions"
    ELSE IF child.node = "Attribute"
    THEN "Attribute access is not allowed in expressions"
    ELSE validate_subscript(child)

\* the first ValueError over the nodes in walk order, "" when there is none
RECURSIVE first_error(_)
first_error(nodes) ==
    IF nodes = <<>> THEN ""
    ELSE IF validate_child(Head(nodes)) # "" THEN validate_child(Head(nodes))
    ELSE first_error(Tail(nodes))

\* _validate_ast
validate_ast(tree) == first_error(walk(<<tree>>))

\* left + right
add_values(l, r) ==
    IF ~l.ok THEN l
    ELSE IF ~r.ok THEN r
    ELSE IF l.value.t = "int" /\ r.value.t = "int"
    THEN Returned(IntV(l.value.n + r.value.n))
    ELSE IF l.value.t = "str" /\ r.value.t = "str"
    THEN Returned(StrV(l.value.s \o r.value.s))
    ELSE Raised("TypeError: unsupported operand type(s) for +")

\* -operand
negate_value(r) ==
    IF ~r.ok THEN r
    ELSE IF r.value.t = "int" THEN Returned(IntV(0 - r.value.n))
    ELSE Raised("TypeError: bad operand type for unary -")

\* f-string pieces joined: each piece formatted as str() gives it
join_values(acc, r) ==
    IF ~acc.ok THEN acc
    ELSE IF ~r.ok THEN r
    ELSE Returned(StrV(acc.value.s \o r.value.s))

\* eval of the compiled tree with globals {"__builtins__": {}} and the
\* context as locals: a name is looked up in the context only
RECURSIVE eval_node(_, _)
RECURSIVE eval_joined(_, _, _)
eval_joined(values, context, acc) ==
    IF values = <<>> THEN acc
    ELSE eval_joined(Tail(values), context,
                     join_values(acc, eval_node(Head(values), context)))

eval_node(n, context) ==
    CASE n.node = "Expression" -> eval_node(n.body, context)
      [] n.node = "Constant" -> Returned(n.value)
      [] n.node = "Name" ->
            IF n.id \in DOMAIN context THEN Returned(context[n.id])
            ELSE Raised("NameError: name '" \o n.id \o "' is not defined")
      [] n.node = "FormattedValue" -> eval_node(n.value, context)
      [] n.node = "JoinedStr" -> eval_joined(n.values, context, Returned(StrV("")))
      [] n.node = "BinOp" ->
            add_values(eval_node(n.left, context), eval_node(n.right, context))
      [] n.node = "UnaryOp" -> negate_value(eval_node(n.operand, context))
      [] n.node = "Subscript" ->
            IF n.slice.node = "Constant" /\ n.value.node = "Name" /\ n.value.id = "row"
            THEN IF n.slice.value.s \in DOMAIN context.row.cells
                 THEN Returned(context.row.cells[n.slice.value.s])
                 ELSE Raised("KeyError: '" \o n.slice.value.s \o "'")
            ELSE Raised("TypeError: not subscriptable")
      [] n.node = "Attribute" -> Returned(StrV("<attribute " \o n.attr \o ">"))
      [] OTHER -> Raised("TypeError")

\* the outcome of _safe_eval_expression: the stage it ended in, and there the
\* value returned or the exception raised
Outcome(stage, r) == [stage |-> stage, ok |-> r.ok, value |-> r.value, error |-> r.error]

\* lines 594-596 for a tree that parsed
validate_and_eval(tree, message, context) ==
    IF message # "" THEN Outcome("validate", Raised("ValueError: " \o message))
    ELSE Outcome("eval", eval_node(tree, context))

\* _safe_eval_expression
safe_eval_expression(expression, context) ==
    IF ~ParseExpression(expression).ok
    THEN Outcome("parse", Raised("SyntaxError: invalid syntax"))
    ELSE validate_and_eval(ParseExpression(expression).tree,
                           validate_ast(ParseExpression(expression).tree), context)

\* lines 381-386: the bindings of an expression; the row is kept whole
ExprContext(row, row_number, seq_value) ==
    [row_index |-> IntV(row_number - 2), excel_row |-> IntV(row_number),
     seq |-> IntV(seq_value), row |-> [t |-> "dict", s |-> "{...}", cells |-> row]]

\* an empty result kept as the task_id, str(result), without an issue
task_id_of_expr_keeping_empty(r, row_number, seq_value, serial) ==
    IF ~r.ok
    THEN [task_id |-> Uuid(serial, row_number), seq |-> seq_value,
          issues |-> <<Msg("task_id expr failed -> ", r.error)>>]
    ELSE [task_id |-> r.value.s, seq |-> seq_value, issues |-> <<>>]

\* lines 387-395: the task_id of the outcome r of the expression
task_id_of_expr(r, row_number, seq_value, serial) ==
    IF ~r.ok
    THEN [task_id |-> Uuid(serial, row_number), seq |-> seq_value,
          issues |-> <<Msg("task_id expr failed -> ", r.error)>>]
    ELSE IF IsEmptyValue(r.value)
    THEN [task_id |-> Uuid(serial, row_number), seq |-> seq_value,
          issues |-> <<Msg("task_id expr empty -> generated uuid", "")>>]
    ELSE [task_id |-> r.value.s, seq |-> seq_value, issues |-> <<>>]

\* a generated identifier for every row, whatever the task_id column holds
task_id_of_value_always_generated(r, row_number, seq, serial) ==
    [task_id |-> Uuid(serial, row_number), seq |-> seq,
     issues |-> IF r.ok /\ ~IsEmptyValue(r.value) THEN <<>>
                ELSE <<Msg("task_id empty -> generated uuid", "")>>]

\* lines 409-412: the transformed value of the task_id column, or a fresh
\* uuid with an issue when it is empty; a transform error makes it None
task_id_of_value(r, row_number, seq, serial) ==
    IF ~r.ok
    THEN [task_id |-> Uuid(serial, row_number), seq |-> seq,
          issues |-> <<Msg("task_id transform error -> ", r.error),
                       Msg("task_id empty -> generated uuid", "")>>]
    ELSE IF IsEmptyValue(r.value)
    THEN [task_id |-> Uuid(serial, row_number), seq |-> seq,
          issues |-> <<Msg("task_id empty -> generated uuid", "")>>]
    ELSE [task_id |-> r.value.s, seq |-> seq, issues |-> <<>>]

\* _resolve_task_id: [task_id, seq, issues]; seq is runtime.sequence after the call.
resolve_task_id(row, row_number, config, seq, serial) ==
    IF config.mode = "GENERATE" THEN
        CASE config.strategy = "uuid_v4" ->
                [task_id |-> Uuid(serial, row_number), seq |-> seq, issues |-> <<>>]
          [] config.strategy = "seq_per_batch" ->
                [task_id |-> ToString(seq + 1), seq |-> seq + 1, issues |-> <<>>]
          [] config.strategy = "expr" ->
                task_id_of_expr(
                    safe_eval_expression(Strip(config.expression),
                                         ExprContext(row, row_number, seq + 1)),
                    row_number, seq + 1, serial)
          [] OTHER ->
                [task_id |-> Uuid(serial, row_number), seq |-> seq,
                 issues |-> <<Msg("Unknown generation strategy: ", config.strategy)>>]
    ELSE task_id_of_value(apply_transforms(Get(row, config.name), config.transforms),
                          row_number, seq, serial)

\* the value as a string whenever the transforms went through: no default for
\* an empty one
column_value_without_default(r, name, default) ==
    IF ~r.ok
    THEN [value |-> default,
          issues |-> <<Msg(name \o " transform error -> ", r.error),
                       Msg(name \o " empty -> using default", "")>>]
    ELSE [value |-> IF r.value.t = "none" THEN default ELSE r.value.s, issues |-> <<>>]

\* lines 430-433: the transformed value as a string, or the default with an issue
column_value_of(r, name, default) ==
    IF ~r.ok
    THEN [value |-> default,
          issues |-> <<Msg(name \o " transform error -> ", r.error),
                       Msg(name \o " empty -> using default", "")>>]
    ELSE IF IsEmptyValue(r.value)
    THEN [value |-> default, issues |-> <<Msg(name \o " empty -> using default", "")>>]
    ELSE [value |-> r.value.s, issues |-> <<>>]

\* _resolve_column_value: [value, issues]
resolve_column_value(row, config, default) ==
    column_value_of(apply_transforms(Get(row, config.name), config.transforms),
                    config.name, default)

\* payload[key] = value
SetKey(payload, key, value) ==
    [k \in (DOMAIN payload) \cup {key} |-> IF k = key THEN value ELSE payload[k]]

\* a transform error leaves the key in the payload, set to None
select_column_setting_none(sel, r, acc) ==
    IF ~r.ok
    THEN [acc EXCEPT !.issues = Append(@, Msg(sel.column \o " transform error -> ", r.error)),
                     !.payload = SetKey(@, sel.key, NoneV)]
    ELSE IF IsEmptyValue(r.value) THEN acc
    ELSE [acc EXCEPT !.payload = SetKey(@, sel.key, r.value)]

\* lines 445-452: one column selection, r its transformed value
select_column(sel, r, acc) ==
    IF ~r.ok
    THEN [acc EXCEPT !.issues = Append(@, Msg(sel.column \o " transform error -> ", r.error))]
    ELSE IF IsEmptyValue(r.value) THEN acc
    ELSE [acc EXCEPT !.payload = SetKey(@, sel.key, r.value)]

\* _build_payload: [payload, issues], the selections taken in order
RECURSIVE build_payload(_, _, _)
build_payload(row, selections, acc) ==
    IF selections = <<>> THEN acc
    ELSE build_payload(row, Tail(selections),
            IF Head(selections).mode = "COLUMN"
            THEN select_column(Head(selections),
                    apply_transforms(Get(row, Head(selections).column),
                                     Head(selections).transforms), acc)
            ELSE [acc EXCEPT !.payload = SetKey(@, Head(selections).key,
                                                Head(selections).value)])

\* lines 359-366: the PreviewRow of the resolved fields, the issues in order
preview_row_of(row_number, tid, tname, fname, pl) ==
    [row |-> [row |-> row_number, task_id |-> tid.task_id,
              task_name |-> tname.value, file_name |-> fname.value,
              payload |-> pl.payload],
     issues |-> tid.issues \o tname.issues \o fname.issues \o pl.issues,
     seq |-> tid.seq]

\* the default file name numbered by the sheet row instead of the data row
process_row_naming_by_sheet_row(row, row_number, mapping, seq, serial) ==
    preview_row_of(row_number,
        resolve_task_id(row, row_number, mapping.core.task_id, seq, serial),
        resolve_column_value(row, mapping.core.task_name, "Untitled"),
        resolve_column_value(row, mapping.core.file_name,
            "row_" \o ToString(row_number) \o ".dat"),
        build_payload(row, mapping.payload_selected, [payload |-> <<>>, issues |-> <<>>]))

\* process_row: [row (the PreviewRow), issues, seq]
process_row(row, row_number, mapping, seq, serial) ==
    preview_row_of(row_number,
        resolve_task_id(row, row_number, mapping.core.task_id, seq, serial),
        resolve_column_value(row, mapping.core.task_name, "Untitled"),
        resolve_column_value(row, mapping.core.file_name,
            "row_" \o ToString(row_number - 1) \o ".dat"),
        build_payload(row, mapping.payload_selected, [payload |-> <<>>, issues |-> <<>>]))

\* _row_is_empty
row_is_empty(record) ==
    \A k \in DOMAIN record :
        record[k].t = "none" \/ (record[k].t = "str" /\ Strip(record[k].s) = "")

\* _is_json_serializable: json.dumps raises TypeError on a datetime
is_json_serializable(payload) == \A k \in DOMAIN payload : payload[k].t # "datetime"

-----------------------------------------------------------------------------
(* Sources and mapping configurations the requests are drawn from *)

Rec(id, name, due) == [id |-> id, name |-> name, due |-> due]

rA == Rec(StrV("T1"), StrV("Alpha"), NoneV)
rA2 == Rec(StrV("T1"), StrV("Gamma"), NoneV)
rB == Rec(StrV("T2"), StrV("Beta"), NoneV)
rBlank == Rec(NoneV, StrV("  "), NoneV)
rD == Rec(StrV("T2"), StrV("Beta"), DateV("2024-01-01 00:00:00"))

\* record lists a JSON upload flattens to (JSON-safe values only)
JsonSources == {<<rA, rA2, rBlank, rB>>}
\* row lists of a workbook copied from client_uploads (cells may hold dates)
ClientSources == {<<rA, rD>>}
\* inline rows of a request body (JSON)
InlineSources == {<<[id |-> StrV("T1"), name |-> StrV("Alpha")]>>,
                  <<[id |-> NoneV]>>}

\* the sheet written by json_to_excel and process_server_file in the model
SheetNames == {"Raw"}

ColumnConfig(name, transforms) == [mode |-> "COLUMN", name |-> name, transforms |-> transforms]
GenerateConfig(strategy) == [mode |-> "GENERATE", strategy |-> strategy]

MappingOf(sheet, task_id) ==
    [sheet |-> sheet,
     core |-> [task_id |-> task_id,
               task_name |-> ColumnConfig("name", <<"trim">>),
               file_name |-> ColumnConfig("file", <<>>)],
     payload_selected |-> <<[mode |-> "COLUMN", column |-> "due", key |-> "due",
                             transforms |-> <<>>]>>]

ByColumn == MappingOf("Raw", ColumnConfig("id", <<>>))

Mappings == {ByColumn,
             MappingOf("Raw", GenerateConfig("seq_per_batch")),
             MappingOf("data", ColumnConfig("id", <<>>))}

Projects == {1, 2}          \* rows of the projects table
ProjectIds == {1, 2, 3}     \* project_id values a request may carry
Workers == {"w1", "w2"}     \* concurrent request handlers

-----------------------------------------------------------------------------
(* Tabular source reader *)

\* prepare_dataset_rows: columns in first-seen order are the union of keys; the
\* model keeps them as a set, a normalized record has every column
DatasetColumns(rows) == UNION {DOMAIN rows[i] : i \in 1..Len(rows)}

\* lines 267-273 for one row: a blank row is passed over, any other is counted
\* and kept while fewer than `limit` are
prepare_step(normalized, index, limit, acc) ==
    IF row_is_empty(normalized) THEN acc
    ELSE [prepared |-> IF Len(acc.prepared) < limit
                       THEN Append(acc.prepared, [n |-> index + 1, record |-> normalized])
                       ELSE acc.prepared,
          total_rows |-> acc.total_rows + 1]

RECURSIVE prepare_from(_, _, _, _, _)
prepare_from(rows, columns, index, limit, acc) ==
    IF index > Len(rows) THEN acc
    ELSE prepare_from(rows, columns, index + 1, limit,
            prepare_step([c \in columns |-> Get(rows[index], c)], index, limit, acc))

prepare_dataset_rows(rows, limit) ==
    IF rows = <<>> THEN [prepared |-> <<>>, total_rows |-> 0]
    ELSE prepare_from(rows, DatasetColumns(rows), 1, limit,
                      [prepared |-> <<>>, total_rows |-> 0])

\* stream_excel_rows over the data rows of the sheet: blank rows are skipped,
\* the first data row is row 2
RECURSIVE stream_from(_, _)
stream_from(rows, index) ==
    IF index > Len(rows) THEN <<>>
    ELSE IF row_is_empty(rows[index]) THEN stream_from(rows, index + 1)
    ELSE <<[n |-> index + 1, record |-> rows[index]]>> \o stream_from(rows, index + 1)

stream_excel_rows(book, sheet) ==
    IF sheet # book.sheet THEN [ok |-> FALSE, rows |-> <<>>]
    ELSE [ok |-> TRUE, rows |-> stream_from(book.rows, 1)]

\* read_preview_records_from_excel: the first `limit` rows of the sheet as the
\* data frame holds them (a blank row is a row of None cells), numbered from 2
Min(a, b) == IF a < b THEN a ELSE b

read_preview_records_from_excel(book, sheet, limit) ==
    IF sheet # "" /\ sheet # book.sheet
    THEN [ok |-> FALSE, sheet |-> "", columns |-> {}, records |-> <<>>, total_rows |-> 0]
    ELSE [ok |-> TRUE, sheet |-> book.sheet,
          columns |-> IF book.rows = <<>> THEN {} ELSE DOMAIN book.rows[1],
          records |-> [i \in 1..Min(limit, Len(book.rows)) |->
                          [n |-> i + 1, record |-> book.rows[i]]],
          total_rows |-> Len(book.rows)]

\* the order of the columns in the sheets and inline rows of the sources
ColumnOrder == <<"id", "name", "due">>

\* the columns of a source, a set of names, in their order
InOrder(columns) == SelectSeq(ColumnOrder, LAMBDA c : c \in columns)

\* `token in text` over the lowered column names of the model
Contains(text, token) ==
    \/ text = token
    \/ <<text, token>> \in
            {<<"username", "name">>, <<"task_name", "name">>, <<"file_name", "name">>,
             <<"file_name", "file">>, <<"file_url", "file">>, <<"file_url", "url">>,
             <<"media.url", "url">>, <<"filepath", "file">>, <<"filepath", "path">>}

\* lines 662-665: lowered[hint] for the first hint that is a lowered column
\* name; of columns with one lowered name the last one is kept
exact_column(columns, hints) ==
    columns[CHOOSE k \in 1..Len(columns) :
        /\ \E i \in 1..Len(hints) :
                /\ Lower(columns[k]) = hints[i]
                /\ \A j \in 1..(i - 1) : \A l \in 1..Len(columns) :
                        Lower(columns[l]) # hints[j]
        /\ \A l \in (k + 1)..Len(columns) : Lower(columns[l]) # Lower(columns[k])]

\* _find_column: an exact match on the lowered name, hints in order; else the
\* first column that contains a hint; "" stands for None
find_column(columns, hints) ==
    IF \E i \in 1..Len(hints) : \E k \in 1..Len(columns) : Lower(columns[k]) = hints[i]
    THEN exact_column(columns, hints)
    ELSE IF \E k \in 1..Len(columns) : \E i \in 1..Len(hints) :
                Contains(Lower(columns[k]), hints[i])
    THEN columns[CHOOSE k \in 1..Len(columns) :
            /\ \E i \in 1..Len(hints) : Contains(Lower(columns[k]), hints[i])
            /\ \A j \in 1..(k - 1) : \A i \in 1..Len(hints) :
                    ~Contains(Lower(columns[j]), hints[i])]
    ELSE ""

\* columns[0] when nothing was found and there are columns
FirstColumn(found, columns) ==
    IF found = "" /\ columns # <<>> THEN columns[1] ELSE found

\* lines 647-651: "basename" when the name of the file column has url or path
file_transforms_of(file_name_column) ==
    IF file_name_column # ""
       /\ \E token \in {"url", "path"} : Contains(Lower(file_name_column), token)
    THEN <<"basename">>
    ELSE <<>>

\* lines 653-658: the mapping of the two columns chosen
suggested_mapping(task_name_column, file_name_column) ==
    [sheet |-> "Raw",
     core |-> [task_id |-> GenerateConfig("uuid_v4"),
               task_name |-> ColumnConfig(IF task_name_column = "" THEN "task_name"
                                          ELSE task_name_column, <<"trim">>),
               file_name |-> ColumnConfig(IF file_name_column = "" THEN "file_name"
                                          ELSE file_name_column,
                                          file_transforms_of(file_name_column))],
     payload_selected |-> <<>>]

\* suggest_mapping_from_columns, columns the list of column names
suggest_mapping_from_columns(columns) ==
    suggested_mapping(
        FirstColumn(find_column(columns, <<"task_name", "name", "title">>), columns),
        FirstColumn(find_column(columns,
                        <<"file_name", "filename", "file", "media.url", "url">>), columns))

-----------------------------------------------------------------------------
(* State of the store, the directories and the workers *)

NoBook == [sheet |-> "", rows |-> <<>>]

\* an upload id nothing was written for
NoUpload == [xlsx |-> FALSE, json |-> FALSE, meta |-> FALSE,
             from_client_upload |-> FALSE, book |-> NoBook]

NoResp == [status |-> 0, detail |-> "", inserted |-> 0, skipped |-> 0,
           errors |-> <<>>, rows |-> <<>>]

Idle == [pc |-> "idle", op |-> "none", serial |-> 0, project |-> 0, upload |-> 0,
         has_rows |-> FALSE, before |-> NoUpload, pending |-> <<>>, issues |-> <<>>,
         skipped |-> 0, seen_ids |-> <<>>, stored |-> "", removed |-> {},
         processed |-> 0, resp |-> NoResp]

UploadIds == 1..MaxUploads

\* the artifacts on disk of an upload id (0 and ids not handed out have none)
Disk(u) == IF u \in UploadIds THEN uploads[u] ELSE NoUpload

Issue(row, message) == [row |-> row, message |-> message]

Rejected(status, detail) == [NoResp EXCEPT !.status = status, !.detail = detail]

\* no source is being read
NoRead ==
    [mode |-> "none", header_row |-> <<>>, data |-> <<>>, inline |-> <<>>,
     headers |-> <<>>, pos |-> 0, yielded |-> <<>>, mapping |-> ByColumn]

\* no task is under quality control
NoQc == [status |-> <<>>, req |-> <<>>]

\* no document is being converted
NoConversion ==
    [loaded |-> [ok |-> FALSE, data |-> NoneV], records_path |-> "", stage |-> "none",
     records |-> <<>>, flattened |-> <<>>, columns |-> <<>>, error |-> ""]

\* no rows given to the mapping engine
NoRun == [rows |-> <<>>, mapping |-> ByColumn, pass |-> 1, i |-> 0, sequence |-> 0,
          out |-> <<>>, earlier |-> <<>>]

Init ==
    /\ tasks = {}
    /\ importFiles = {}
    /\ uploads = [u \in UploadIds |-> NoUpload]
    /\ permFiles = {}
    /\ nextUpload = 0
    /\ nreq = 0
    /\ wk = [w \in Workers |-> Idle]
    /\ eng = NoRun
    /\ conv = NoConversion
    /\ rd = NoRead
    /\ qc = NoQc

-----------------------------------------------------------------------------
(* Uploads *)

\* json_to_excel, when the conversion succeeds: the workbook, the uploaded JSON
\* and the metadata sidecar are written under a fresh upload id
JsonToExcel ==
    /\ nextUpload < MaxUploads
    /\ \E records \in JsonSources, sheet \in SheetNames :
        uploads' = [uploads EXCEPT ![nextUpload + 1] =
                        [xlsx |-> TRUE, json |-> TRUE, meta |-> TRUE,
                         from_client_upload |-> FALSE,
                         book |-> [sheet |-> sheet, rows |-> records]]]
    /\ nextUpload' = nextUpload + 1
    /\ UNCHANGED <<tasks, importFiles, permFiles, nreq, wk, eng, conv, rd, qc>>

\* process_server_file, when the file is read: the workbook is a copy of the
\* client's file and the sidecar marks it from_client_upload; no JSON is kept
ProcessServerFile ==
    /\ nextUpload < MaxUploads
    /\ \E rows \in ClientSources :
        uploads' = [uploads EXCEPT ![nextUpload + 1] =
                        [xlsx |-> TRUE, json |-> FALSE, meta |-> TRUE,
                         from_client_upload |-> TRUE,
                         book |-> [sheet |-> "Raw", rows |-> rows]]]
    /\ nextUpload' = nextUpload + 1
    /\ UNCHANGED <<tasks, importFiles, permFiles, nreq, wk, eng, conv, rd, qc>>

-----------------------------------------------------------------------------
(* preview_import *)

\* lines 287-289 for one row
preview_step(row_number, pr, acc) ==
    [rows |-> Append(acc.rows, pr.row),
     issues |-> acc.issues \o [k \in 1..Len(pr.issues) |-> Issue(row_number, pr.issues[k])],
     seq |-> pr.seq]

\* lines 281-291: process_row over the bounded read, one runtime
RECURSIVE preview_rows_from(_, _, _, _, _)
preview_rows_from(raw, i, mapping, serial, acc) ==
    IF i > Len(raw) THEN acc
    ELSE preview_rows_from(raw, i + 1, mapping, serial,
            preview_step(raw[i].n,
                process_row(raw[i].record, raw[i].n, mapping, acc.seq, serial), acc))

PreviewResponse(r) == [NoResp EXCEPT !.status = 200, !.rows = r.rows, !.errors = r.issues]

preview_run(raw, mapping, serial) ==
    PreviewResponse(preview_rows_from(raw, 1, mapping, serial,
                        [rows |-> <<>>, issues |-> <<>>, seq |-> 0]))

\* lines 270-291 once the workbook is read; a TaskImportError of the read is
\* raised outside any handler of the route
preview_of_excel(x, has_mapping, mapping_config, serial) ==
    IF ~x.ok THEN Rejected(500, "TaskImportError: Sheet not found.")
    ELSE preview_run(x.records,
            IF has_mapping THEN [mapping_config EXCEPT !.sheet = x.sheet]
            ELSE [suggest_mapping_from_columns(InOrder(x.columns)) EXCEPT !.sheet = x.sheet],
            serial)

\* the response of preview_import; rows = <<>> is rows absent or empty, upload = 0
\* is excel_upload_id absent, has_mapping = FALSE is mapping_config = None
preview_response(project, upload, rows, has_mapping, mapping_config, limit, serial) ==
    IF project \notin Projects THEN Rejected(404, "Project not found.")
    ELSE IF upload = 0 /\ rows = <<>>
    THEN Rejected(422, "Provide either excel_upload_id or rows for preview.")
    ELSE IF rows # <<>>
    THEN preview_run(prepare_dataset_rows(rows, limit).prepared,
            IF has_mapping THEN mapping_config
            ELSE suggest_mapping_from_columns(InOrder(DatasetColumns(rows))),
            serial)
    ELSE IF ~Disk(upload).xlsx THEN Rejected(404, "Excel upload not found.")
    ELSE preview_of_excel(
            read_preview_records_from_excel(Disk(upload).book,
                IF has_mapping THEN mapping_config.sheet ELSE "", limit),
            has_mapping, mapping_config, serial)

\* a preview that cleans up after itself: the workbook it read is unlinked
PreviewUnlinking(w) ==
    /\ wk[w].pc \in {"idle", "done"}
    /\ nreq < MaxRequests
    /\ nreq' = nreq + 1
    /\ \E project \in ProjectIds, upload \in 0..MaxUploads,
          rows \in InlineSources \cup {<<>>},
          has_mapping \in BOOLEAN, limit \in {1, PREVIEW_LIMIT} :
       \E mapping_config \in IF has_mapping THEN Mappings ELSE {ByColumn} :
        /\ wk' = [wk EXCEPT ![w] =
                [Idle EXCEPT !.pc = "done", !.op = "preview", !.serial = nreq + 1,
                             !.resp = preview_response(project, upload, rows,
                                        has_mapping, mapping_config, limit, nreq + 1)]]
        /\ uploads' = [u \in UploadIds |->
                        IF u = upload THEN [uploads[u] EXCEPT !.xlsx = FALSE]
                        ELSE uploads[u]]
    /\ UNCHANGED <<tasks, importFiles, permFiles, nextUpload, eng, conv, rd, qc>>

\* a preview request arrives at worker w and is answered; nothing but the
\* worker's record of the response changes
Preview(w) ==
    /\ wk[w].pc \in {"idle", "done"}
    /\ nreq < MaxRequests
    /\ nreq' = nreq + 1
    /\ \E project \in ProjectIds, upload \in 0..MaxUploads,
          rows \in InlineSources \cup {<<>>},
          has_mapping \in BOOLEAN, limit \in {1, PREVIEW_LIMIT} :
       \E mapping_config \in IF has_mapping THEN Mappings ELSE {ByColumn} :
        wk' = [wk EXCEPT ![w] =
                [Idle EXCEPT !.pc = "done", !.op = "preview", !.serial = nreq + 1,
                             !.resp = preview_response(project, upload, rows,
                                        has_mapping, mapping_config, limit, nreq + 1)]]
    /\ UNCHANGED <<tasks, importFiles, uploads, permFiles, nextUpload, eng, conv, rd, qc>>

-----------------------------------------------------------------------------
(* confirm_import *)

\* the scan without the seen_ids test: every row is kept
scan_step_keeping_all(row_number, pr, acc) ==
    [acc EXCEPT !.seq = pr.seq,
                !.seen_ids = [k \in (DOMAIN @) \cup {pr.row.task_id} |->
                                IF k \in DOMAIN @ THEN @[k] ELSE row_number],
                !.issues = @ \o [k \in 1..Len(pr.issues) |-> Issue(row_number, pr.issues[k])],
                !.pending = Append(@, pr.row)]

\* lines 339-351 for one row: a task_id already in seen_ids is skipped with an
\* issue on the row itself, any other row is remembered and kept
scan_step(row_number, pr, acc) ==
    IF pr.row.task_id \in DOMAIN acc.seen_ids
    THEN [acc EXCEPT !.seq = pr.seq,
                     !.issues = Append(@, Issue(row_number,
                                    Msg("Duplicate task_id in upload; skipped.",
                                        pr.row.task_id))),
                     !.skipped = @ + 1]
    ELSE [acc EXCEPT !.seq = pr.seq,
                     !.seen_ids = @ @@ (pr.row.task_id :> row_number),
                     !.issues = @ \o [k \in 1..Len(pr.issues) |->
                                        Issue(row_number, pr.issues[k])],
                     !.pending = Append(@, pr.row)]

\* lines 330-351: process_row over the rows in source order with one runtime
RECURSIVE confirm_scan(_, _, _, _, _)
confirm_scan(iter, i, mapping, serial, acc) ==
    IF i > Len(iter) THEN acc
    ELSE confirm_scan(iter, i + 1, mapping, serial,
            scan_step(iter[i].n,
                process_row(iter[i].record, iter[i].n, mapping, acc.seq, serial), acc))

ScanStart == [seq |-> 0, seen_ids |-> <<>>, pending |-> <<>>, issues |-> <<>>, skipped |-> 0]

\* the request as the worker holds it; processed is the number of rows the
\* reader hands to the loop of lines 330-351 (inline rows are read at once, the
\* rows of a workbook are counted where they are streamed)
RequestState(project, upload, rows, serial) ==
    [Idle EXCEPT !.op = "confirm", !.serial = serial, !.project = project,
                 !.upload = upload, !.has_rows = rows # <<>>, !.before = Disk(upload),
                 !.processed = IF project \in Projects
                               THEN Len(prepare_dataset_rows(rows, Len(rows)).prepared)
                               ELSE 0]

Done(me, resp) ==
    [me EXCEPT !.pc = "done", !.pending = <<>>, !.seen_ids = <<>>,
               !.issues = <<>>, !.skipped = 0, !.resp = resp]

\* lines 355-356: nothing pending ends the request with inserted = 0
after_scan(me, acc) ==
    IF acc.pending = <<>>
    THEN Done(me, [NoResp EXCEPT !.status = 200, !.skipped = acc.skipped,
                                 !.errors = acc.issues])
    ELSE [me EXCEPT !.pc = "precheck", !.pending = acc.pending, !.issues = acc.issues,
                    !.skipped = acc.skipped, !.seen_ids = acc.seen_ids]

\* lines 328-353 over the workbook: a TaskImportError of the reader is a 400
confirm_stream(me, it, mapping, serial) ==
    IF ~it.ok THEN Done(me, Rejected(400, "Sheet not found."))
    ELSE after_scan([me EXCEPT !.processed = Len(it.rows)],
                    confirm_scan(it.rows, 1, mapping, serial, ScanStart))

\* the request without the test that the workbook exists: the reader fails to
\* open it, which is a 400
confirm_begin_unchecked(project, upload, rows, mapping, serial) ==
    IF project \notin Projects
    THEN Done(RequestState(project, upload, rows, serial),
              Rejected(404, "Project not found."))
    ELSE IF upload = 0 /\ rows = <<>>
    THEN Done(RequestState(project, upload, rows, serial),
              Rejected(422, "Provide either excel_upload_id or rows for confirmation."))
    ELSE IF rows # <<>>
    THEN after_scan(RequestState(project, upload, rows, serial),
            confirm_scan(prepare_dataset_rows(rows, Len(rows)).prepared, 1,
                         mapping, serial, ScanStart))
    ELSE IF ~Disk(upload).xlsx
    THEN Done(RequestState(project, upload, rows, serial),
              Rejected(400, "Unable to open Excel"))
    ELSE confirm_stream(RequestState(project, upload, rows, serial),
            stream_excel_rows(Disk(upload).book,
                IF mapping.sheet = "" THEN "Raw" ELSE mapping.sheet),
            mapping, serial)

\* lines 309-356 for one request: the worker's state after them
confirm_begin(project, upload, rows, mapping, serial) ==
    IF project \notin Projects
    THEN Done(RequestState(project, upload, rows, serial),
              Rejected(404, "Project not found."))
    ELSE IF upload = 0 /\ rows = <<>>
    THEN Done(RequestState(project, upload, rows, serial),
              Rejected(422, "Provide either excel_upload_id or rows for confirmation."))
    ELSE IF rows # <<>>
    THEN after_scan(RequestState(project, upload, rows, serial),
            confirm_scan(prepare_dataset_rows(rows, Len(rows)).prepared, 1,
                         mapping, serial, ScanStart))
    ELSE IF ~Disk(upload).xlsx
    THEN Done(RequestState(project, upload, rows, serial),
              Rejected(404, "Excel upload not found."))
    ELSE confirm_stream(RequestState(project, upload, rows, serial),
            stream_excel_rows(Disk(upload).book,
                IF mapping.sheet = "" THEN "Raw" ELSE mapping.sheet),
            mapping, serial)

\* a confirm request arrives at worker w, its fields drawn from the given sets
ConfirmBegin(w, projects, rowsets, mappings) ==
    /\ wk[w].pc \in {"idle", "done"}
    /\ nreq < MaxRequests
    /\ nreq' = nreq + 1
    /\ \E project \in projects, upload \in 0..MaxUploads,
          rows \in rowsets, mapping \in mappings :
        wk' = [wk EXCEPT ![w] = confirm_begin(project, upload, rows, mapping, nreq + 1)]
    /\ UNCHANGED <<tasks, importFiles, uploads, permFiles, nextUpload, eng, conv, rd, qc>>

\* the lookup without its project filter
find_conflicts_any_project(project_id, ids) ==
    {t.task_id : t \in {x \in tasks : x.task_id \in ids}}

\* _find_conflicts: the task_ids among `ids` that project_tasks holds for the project
find_conflicts(project_id, ids) ==
    {t.task_id : t \in {x \in tasks : x.project_id = project_id /\ x.task_id \in ids}}

\* lines 361-374: the pending rows whose task_id is not in duplicates, with an
\* issue and a skip for each one dropped
RECURSIVE filter_pending(_, _, _, _, _)
filter_pending(pending, i, duplicates, seen_ids, acc) ==
    IF i > Len(pending) THEN acc
    ELSE IF pending[i].task_id \in duplicates
    THEN filter_pending(pending, i + 1, duplicates, seen_ids,
            [acc EXCEPT !.issues = Append(@, Issue(seen_ids[pending[i].task_id],
                            Msg("task_id already exists for this project; skipped.",
                                pending[i].task_id))),
                        !.skipped = @ + 1])
    ELSE filter_pending(pending, i + 1, duplicates, seen_ids,
            [acc EXCEPT !.pending = Append(@, pending[i])])

\* lines 376-388: an issue and a skip for each row whose payload json.dumps
\* rejects; the loop leaves pending as it is
RECURSIVE check_serializable(_, _, _)
check_serializable(pending, i, acc) ==
    IF i > Len(pending) THEN acc
    ELSE IF ~is_json_serializable(pending[i].payload)
    THEN check_serializable(pending, i + 1,
            [acc EXCEPT !.issues = Append(@, Issue(pending[i].row,
                            Msg("Payload is not JSON serializable; skipped.",
                                pending[i].task_id))),
                        !.skipped = @ + 1])
    ELSE check_serializable(pending, i + 1, acc)

check_serializable_of(f) == check_serializable(f.pending, 1, f)

\* the request after the pre-checks when their skips are not added to the count
after_precheck_uncounted(me, c) ==
    IF c.pending = <<>>
    THEN Done(me, [NoResp EXCEPT !.status = 200, !.skipped = me.skipped,
                                 !.errors = c.issues])
    ELSE [me EXCEPT !.pc = "store", !.pending = c.pending, !.issues = c.issues]

\* lines 376-391: with nothing left pending the request ends with inserted = 0
after_precheck(me, c) ==
    IF c.pending = <<>>
    THEN Done(me, [NoResp EXCEPT !.status = 200, !.skipped = c.skipped,
                                 !.errors = c.issues])
    ELSE [me EXCEPT !.pc = "store", !.pending = c.pending,
                    !.issues = c.issues, !.skipped = c.skipped]

\* lines 358-391
ConfirmPrecheck(w) ==
    /\ wk[w].pc = "precheck"
    /\ wk' = [wk EXCEPT ![w] =
                after_precheck(wk[w],
                    check_serializable_of(
                        filter_pending(wk[w].pending, 1,
                            find_conflicts(wk[w].project, DOMAIN wk[w].seen_ids),
                            wk[w].seen_ids,
                            [pending |-> <<>>, issues |-> wk[w].issues,
                             skipped |-> wk[w].skipped])))]
    /\ UNCHANGED <<tasks, importFiles, uploads, permFiles, nextUpload, nreq, eng, conv, rd, qc>>

\* the name uuid4().hex gives the stored import file of a confirm
StoredName(serial) == "import-" \o ToString(serial)

\* the store step without its two failures: a confirm with nothing to store
\* goes on to the commit with no stored file
ConfirmStoreWithoutFile(w) ==
    /\ wk[w].pc = "store"
    /\ LET me == wk[w]
           u == me.upload
       IN IF u # 0 /\ Disk(u).meta /\ (Disk(u).from_client_upload \/ Disk(u).json)
          THEN /\ permFiles' = permFiles \cup {StoredName(me.serial)}
               /\ uploads' = IF Disk(u).from_client_upload THEN uploads
                             ELSE [uploads EXCEPT ![u].json = FALSE]
               /\ wk' = [wk EXCEPT ![w] =
                            [me EXCEPT !.pc = "commit", !.stored = StoredName(me.serial),
                                       !.removed = IF Disk(u).from_client_upload THEN @
                                                   ELSE @ \cup {<<u, "json">>}]]
          ELSE /\ wk' = [wk EXCEPT ![w] = [me EXCEPT !.pc = "commit"]]
               /\ UNCHANGED <<permFiles, uploads>>
    /\ UNCHANGED <<tasks, importFiles, nextUpload, nreq, eng, conv, rd, qc>>

\* lines 391-428: the import file is put into IMPORT_FILES_ROOT before anything
\* is added to the session: copied from client_uploads, or moved out of the
\* upload directory (the uploaded JSON)
ConfirmStore(w) ==
    /\ wk[w].pc = "store"
    /\ LET me == wk[w]
           u == me.upload
           fail(detail) == Done(me, Rejected(500, detail))
       IN IF u # 0 /\ Disk(u).meta
          THEN IF Disk(u).from_client_upload
               THEN /\ permFiles' = permFiles \cup {StoredName(me.serial)}
                    /\ wk' = [wk EXCEPT ![w] = [me EXCEPT !.pc = "commit",
                                                    !.stored = StoredName(me.serial)]]
                    /\ UNCHANGED uploads
               ELSE IF ~Disk(u).json
               THEN /\ wk' = [wk EXCEPT ![w] =
                                fail("Failed to store import file: Temporary JSON file missing")]
                    /\ UNCHANGED <<permFiles, uploads>>
               ELSE /\ permFiles' = permFiles \cup {StoredName(me.serial)}
                    /\ uploads' = [uploads EXCEPT ![u].json = FALSE]
                    /\ wk' = [wk EXCEPT ![w] = [me EXCEPT !.pc = "commit",
                                                    !.stored = StoredName(me.serial),
                                                    !.removed = @ \cup {<<u, "json">>}]]
          ELSE /\ wk' = [wk EXCEPT ![w] = fail("Could not process and store the import file.")]
               /\ UNCHANGED <<permFiles, uploads>>
    /\ UNCHANGED <<tasks, importFiles, nextUpload, nreq, eng, conv, rd, qc>>

\* lines 438-449: one ProjectTask per pending row; id is the row's primary key
to_insert_of(me) ==
    [i \in 1..Len(me.pending) |->
        [id |-> <<me.serial, i>>,
         project_id |-> me.project,
         task_id |-> me.pending[i].task_id,
         task_name |-> IF me.pending[i].task_name = "" THEN "Untitled"
                       ELSE me.pending[i].task_name,
         file_name |-> IF me.pending[i].file_name = ""
                       THEN "row_" \o ToString(me.pending[i].row - 1) \o ".dat"
                       ELSE me.pending[i].file_name,
         status |-> "NEW",
         payload |-> me.pending[i].payload]]

\* lines 430-433: the ProjectImportFile row of the confirm
import_file_of(me) ==
    [id |-> me.serial, project_id |-> me.project, file_name |-> me.stored]

\* a table without the unique constraint takes any rows
no_unique_constraint(table, rows) == FALSE

\* uq_project_tasks_project_task_id: the rows cannot be added to the table
unique_violation(table, rows) ==
    \/ \E i \in 1..Len(rows) : \E t \in table :
            t.project_id = rows[i].project_id /\ t.task_id = rows[i].task_id
    \/ \E i, j \in 1..Len(rows) :
            i # j /\ rows[i].project_id = rows[j].project_id
                  /\ rows[i].task_id = rows[j].task_id

\* a flush that is not undone: the import-file row, added first, stays
rolled_back_keeping_file(db, file_row, rows) ==
    [db EXCEPT !.importFiles = @ \cup {file_row}]

\* db.rollback() after IntegrityError: what the two tables hold afterwards, db
\* the tables before the flush
rolled_back(db, file_row, rows) == db

\* _delete_upload_artifacts: the artifacts of the upload it unlinks
deleted_artifacts(u) ==
    {<<u, x>> : x \in {s \in {"xlsx", "json", "meta"} :
                        \/ s = "xlsx" /\ Disk(u).xlsx
                        \/ s = "json" /\ Disk(u).json
                        \/ s = "meta" /\ Disk(u).meta}}

\* lines 430-465: the import-file row and the task rows are flushed and
\* committed in one transaction; the JSON column's serializer raises on a row
\* json.dumps rejects (no handler: the request fails, nothing is committed),
\* the unique constraint raises IntegrityError (rollback, 409)
ConfirmCommit(w) ==
    /\ wk[w].pc = "commit"
    /\ LET me == wk[w]
           u == me.upload
           to_insert == to_insert_of(me)
           finish(resp) == Done(me, [resp EXCEPT !.rows = to_insert])
           bad_payload == \E i \in 1..Len(to_insert) :
                              ~is_json_serializable(to_insert[i].payload)
           conflict == unique_violation(tasks, to_insert)
       IN \/ /\ bad_payload
             /\ wk' = [wk EXCEPT ![w] =
                        finish(Rejected(500, "StatementError: not JSON serializable"))]
             /\ UNCHANGED <<tasks, importFiles, uploads>>
          \/ /\ conflict
             /\ tasks' = rolled_back([tasks |-> tasks, importFiles |-> importFiles],
                                     import_file_of(me), to_insert).tasks
             /\ importFiles' = rolled_back([tasks |-> tasks, importFiles |-> importFiles],
                                           import_file_of(me), to_insert).importFiles
             /\ wk' = [wk EXCEPT ![w] =
                        finish(Rejected(409, "Database constraint error while inserting tasks"))]
             /\ UNCHANGED uploads
          \/ /\ ~bad_payload /\ ~conflict
             /\ tasks' = tasks \cup {to_insert[i] : i \in 1..Len(to_insert)}
             /\ importFiles' = importFiles \cup {import_file_of(me)}
             /\ IF Len(to_insert) > 0 /\ u # 0
                THEN /\ uploads' = [x \in UploadIds |-> IF x = u THEN NoUpload ELSE uploads[x]]
                     /\ wk' = [wk EXCEPT ![w] =
                                [finish([NoResp EXCEPT !.status = 200,
                                            !.inserted = Len(to_insert),
                                            !.skipped = me.skipped, !.errors = me.issues])
                                 EXCEPT !.removed = @ \cup deleted_artifacts(u)]]
                ELSE /\ UNCHANGED uploads
                     /\ wk' = [wk EXCEPT ![w] =
                                finish([NoResp EXCEPT !.status = 200,
                                            !.inserted = Len(to_insert),
                                            !.skipped = me.skipped, !.errors = me.issues])]
    /\ UNCHANGED <<permFiles, nextUpload, nreq, eng, conv, rd, qc>>

-----------------------------------------------------------------------------

(* The mapping engine over the inline rows of a preview: preview_import     *)
(* prepares the rows and runs process_row over them with one fresh          *)
(* MappingRuntime; a pass is one such request, repeated over the same rows  *)

MaxBatch == 2     \* rows of a request
MaxPasses == 2    \* requests over the same rows and mapping

\* inline rows: JSON objects
EngineRecords ==
    {[id |-> StrV("T1"), name |-> StrV("Alpha")],
     [name |-> StrV("Alpha")],
     [id |-> StrV("  "), name |-> StrV("Beta"), note |-> StrV("  ")],
     [id |-> IntV(0), name |-> BoolV(FALSE), note |-> ListV(<<>>, "[]")],
     [id |-> NoneV, name |-> StrV(""), note |-> DictV(<<>>, "{}")],
     [id |-> StrV(" T1 "), name |-> StrV("Gamma"), note |-> IntV(7)],
     [id |-> NoneV, name |-> StrV("  ")]}

Batches == UNION {[1..n -> EngineRecords] : n \in 1..MaxBatch}

\* expressions of the expr strategy; the last two do not parse
ExprTexts ==
    {"seq", "seq + 1", "-seq", "f'T-{excel_row}'", "row['id']", "row['zz']",
     "row['id'] + 1", "''", "len(row)", "row.id", "row['id'].real", "name",
     "seq['id']", "row[seq]", "row['id'", ""}

ExprConfig(expression) ==
    [mode |-> "GENERATE", strategy |-> "expr", expression |-> expression]

EngineTaskIds ==
    {GenerateConfig("seq_per_batch"), GenerateConfig("uuid_v4")}
    \cup {ExprConfig(e) : e \in ExprTexts}
    \cup {ColumnConfig("id", t) :
            t \in {<<>>, <<"trim">>, <<" TRIM ", "lower">>, <<"nope">>, <<"  ">>,
                   <<"to_int(x)">>, <<"to_int(7)">>}}

ColumnSelection(column, key, transforms) ==
    [mode |-> "COLUMN", column |-> column, key |-> key, transforms |-> transforms]
ConstantSelection(key, value) == [mode |-> "CONSTANT", key |-> key, value |-> value]

EnginePayloads ==
    {<<ColumnSelection("note", "note", <<>>), ConstantSelection("k", NoneV)>>,
     <<ConstantSelection("note", StrV("")), ColumnSelection("note", "note", <<>>),
       ColumnSelection("name", "n", <<"upper">>)>>,
     <<ColumnSelection("note", "note", <<"nope">>), ColumnSelection("id", "i", <<"trim">>)>>}

EngineMapping(task_id, task_name, payload_selected) ==
    [sheet |-> "Raw",
     core |-> [task_id |-> task_id, task_name |-> task_name,
               file_name |-> ColumnConfig("file", <<>>)],
     payload_selected |-> payload_selected]

EngineMappings ==
    {EngineMapping(c, ColumnConfig("name", <<>>), <<>>) : c \in EngineTaskIds}
    \cup {EngineMapping(GenerateConfig("seq_per_batch"), ColumnConfig("name", t), <<>>) :
            t \in {<<"trim">>, <<"to_int(x)">>, <<"">>}}
    \cup {EngineMapping(ColumnConfig("id", <<"nope">>), ColumnConfig("name", <<"nope">>), p) :
            p \in EnginePayloads}
    \cup {EngineMapping(GenerateConfig("seq_per_batch"), ColumnConfig("name", <<>>), p) :
            p \in EnginePayloads}
    \cup {[EngineMapping(ColumnConfig("id", <<"to_int(x)">>), ColumnConfig("name", <<>>),
                          <<ColumnSelection("id", "i", <<"  ">>),
                            ColumnSelection("name", "n", <<>>)>>)
            EXCEPT !.core.file_name = ColumnConfig("name", <<"nope">>)]}

\* the requests: nothing uploaded or persisted, the rows prepared as line 265 does
InitEngine ==
    /\ tasks = {}
    /\ importFiles = {}
    /\ uploads = [u \in UploadIds |-> NoUpload]
    /\ permFiles = {}
    /\ nextUpload = 0
    /\ nreq = 0
    /\ wk = [w \in Workers |-> Idle]
    /\ eng \in {[NoRun EXCEPT !.rows = prepare_dataset_rows(b, PREVIEW_LIMIT).prepared,
                              !.mapping = m] : b \in Batches, m \in EngineMappings}
    /\ conv = NoConversion
    /\ rd = NoRead
    /\ qc = NoQc

\* lines 285-291 for one row, pr what process_row returned
engine_step(e, pr) ==
    [e EXCEPT !.i = @ + 1, !.sequence = pr.seq,
              !.out = Append(@, [row |-> pr.row, issues |-> pr.issues, seq |-> pr.seq])]

\* the next prepared row goes through process_row
EngineRow ==
    /\ eng.i < Len(eng.rows)
    /\ eng' = engine_step(eng,
                process_row(eng.rows[eng.i + 1].record, eng.rows[eng.i + 1].n,
                            eng.mapping, eng.sequence, eng.pass))
    /\ UNCHANGED <<tasks, importFiles, uploads, permFiles, nextUpload, nreq, wk, conv, rd, qc>>

\* the same request made again with the runtime of the request before it
EnginePassKeepingRuntime ==
    /\ eng.rows # <<>>
    /\ eng.i = Len(eng.rows)
    /\ eng.pass < MaxPasses
    /\ eng' = [eng EXCEPT !.pass = @ + 1, !.i = 0,
                          !.earlier = Append(@, eng.out), !.out = <<>>]
    /\ UNCHANGED <<tasks, importFiles, uploads, permFiles, nextUpload, nreq, wk, conv, rd, qc>>

\* the request is answered and the same request is made again: line 281, a
\* fresh MappingRuntime
EnginePass ==
    /\ eng.rows # <<>>
    /\ eng.i = Len(eng.rows)
    /\ eng.pass < MaxPasses
    /\ eng' = [eng EXCEPT !.pass = @ + 1, !.i = 0, !.sequence = 0,
                          !.earlier = Append(@, eng.out), !.out = <<>>]
    /\ UNCHANGED <<tasks, importFiles, uploads, permFiles, nextUpload, nreq, wk, conv, rd, qc>>

NextEngine ==
    \/ EngineRow
    \/ EnginePass

SpecEngine == InitEngine /\ [][NextEngine]_vars

-----------------------------------------------------------------------------

(* The conversion of an uploaded JSON document: convert_json_bytes_to_excel  *)
(* loads the records of the document and flattens them one by one           *)

MaxItems == 2     \* elements of an array of a document

\* json.loads: an array and an object; an object keeps its pairs in order
JsonArray(items) == [t |-> "list", items |-> items]
JsonObject(pairs) == [t |-> "dict", items |-> pairs]
Pair(key, value) == [key |-> key, value |-> value]

\* dict.get(key) on an object
dict_get(pairs, key) ==
    IF \E j \in 1..Len(pairs) : pairs[j].key = key
    THEN pairs[CHOOSE j \in 1..Len(pairs) : pairs[j].key = key].value
    ELSE NoneV

\* out[key] = value on a dict that keeps insertion order
dict_set(pairs, key, value) ==
    IF \E j \in 1..Len(pairs) : pairs[j].key = key
    THEN [j \in 1..Len(pairs) |-> IF pairs[j].key = key THEN Pair(key, value) ELSE pairs[j]]
    ELSE Append(pairs, Pair(key, value))

\* json.dumps(obj, ensure_ascii=False) with its default separators
RECURSIVE json_dumps(_)
RECURSIVE dumps_items(_)
RECURSIVE dumps_pairs(_)
dumps_items(items) ==
    IF items = <<>> THEN ""
    ELSE json_dumps(Head(items))
         \o (IF Tail(items) = <<>> THEN "" ELSE ", " \o dumps_items(Tail(items)))

dumps_pairs(pairs) ==
    IF pairs = <<>> THEN ""
    ELSE "\"" \o Head(pairs).key \o "\": " \o json_dumps(Head(pairs).value)
         \o (IF Tail(pairs) = <<>> THEN "" ELSE ", " \o dumps_pairs(Tail(pairs)))

json_dumps(v) ==
    CASE v.t = "none" -> "null"
      [] v.t = "int" -> ToString(v.n)
      [] v.t = "str" -> "\"" \o v.s \o "\""
      [] v.t = "list" -> "[" \o dumps_items(v.items) \o "]"
      [] v.t = "dict" -> "{" \o dumps_pairs(v.items) \o "}"

\* "|".join(str(item) for item in obj)
RECURSIVE join_str(_)
join_str(items) ==
    IF items = <<>> THEN ""
    ELSE Head(items).s \o (IF Tail(items) = <<>> THEN "" ELSE "|" \o join_str(Tail(items)))

\* isinstance(item, (dict, list))
is_container(v) == v.t \in {"dict", "list"}

\* lines 153-161: what a list is flattened to
flatten_list(obj) ==
    IF obj.items = <<>> THEN StrV("")
    ELSE IF \A j \in 1..Len(obj.items) : ~is_container(obj.items[j])
    THEN StrV(join_str(obj.items))
    ELSE StrV(json_dumps(obj))

\* _flatten_recursive: out after obj is flattened under prefix
RECURSIVE flatten_recursive(_, _, _)
RECURSIVE flatten_pairs(_, _, _)
flatten_pairs(pairs, prefix, out) ==
    IF pairs = <<>> THEN out
    ELSE flatten_pairs(Tail(pairs), prefix,
            flatten_recursive(Head(pairs).value,
                IF prefix # "" THEN prefix \o "." \o Head(pairs).key ELSE Head(pairs).key,
                out))

flatten_recursive(obj, prefix, out) ==
    IF obj.t = "dict" THEN flatten_pairs(obj.items, prefix, out)
    ELSE IF obj.t = "list"
    THEN dict_set(out, IF prefix # "" THEN prefix ELSE "[]", flatten_list(obj))
    ELSE dict_set(out, IF prefix # "" THEN prefix ELSE "value", obj)

\* flatten_record: the flat dict as its pairs in insertion order
flatten_record(obj, prefix) == flatten_recursive(obj, prefix, <<>>)

\* one item of _ensure_records_list
ensure_record(item) ==
    IF item.t = "dict" THEN item ELSE JsonObject(<<Pair("value", item)>>)

\* _ensure_records_list
ensure_records_list(items) == [j \in 1..Len(items) |-> ensure_record(items[j])]

\* line 131: the dicts among the items of a list
dict_like(items) == SelectSeq(items, LAMBDA item : item.t = "dict")

\* lines 129-133: the top-level pairs whose value is a list holding a dict
is_candidate(pair) ==
    pair.value.t = "list" /\ pair.value.items # <<>> /\ dict_like(pair.value.items) # <<>>

\* line 135: max(candidates, key=len of the dicts): the first of the longest
best_candidate(candidates) ==
    candidates[CHOOSE j \in 1..Len(candidates) :
        /\ \A l \in 1..Len(candidates) :
                Len(dict_like(candidates[l].value.items))
                    <= Len(dict_like(candidates[j].value.items))
        /\ \A l \in 1..(j - 1) :
                Len(dict_like(candidates[l].value.items))
                    < Len(dict_like(candidates[j].value.items))]

\* _auto_detect_records
auto_detect_records(data) ==
    IF data.t = "list" THEN ensure_records_list(data.items)
    ELSE IF data.t = "dict"
    THEN IF SelectSeq(data.items, is_candidate) # <<>>
         THEN dict_like(best_candidate(SelectSeq(data.items, is_candidate)).value.items)
         ELSE <<data>>
    ELSE <<JsonObject(<<Pair("value", data)>>)>>

\* records_path.strip().split(".") without the empty parts and "$"
PathParts(records_path) ==
    CASE records_path = "data.items" -> <<"data", "items">>
      [] records_path = "$.data" -> <<"data">>
      [] records_path = "0" -> <<"0">>
      [] OTHER -> <<>>

\* lines 95-105: the descent along the parts: [ok, value], or the
\* RecordsPathError
RECURSIVE descend(_, _, _)
descend(current, parts, records_path) ==
    IF parts = <<>> THEN Returned(current)
    ELSE IF current.t = "list"
    THEN IF ~ParseInt(Head(parts)).ok
              \/ ParseInt(Head(parts)).n >= Len(current.items)
         THEN Raised("records_path '" \o records_path \o "' did not resolve to an array.")
         ELSE descend(current.items[ParseInt(Head(parts)).n + 1], Tail(parts), records_path)
    ELSE IF current.t = "dict"
    THEN descend(dict_get(current.items, Head(parts)), Tail(parts), records_path)
    ELSE Raised("Cannot descend into '" \o Head(parts) \o "' from non-container type.")

\* lines 107-111: the records of what the path resolved to
records_at(r, records_path) ==
    IF ~r.ok THEN r
    ELSE IF r.value.t = "list" THEN Returned(ensure_records_list(r.value.items))
    ELSE IF r.value.t = "none"
    THEN Raised("records_path '" \o records_path \o "' not found.")
    ELSE Raised("records_path '" \o records_path \o "' resolved to "
                \o r.value.t \o ", expected list.")

\* load_json_records_from_bytes; loaded is what json.loads made of the bytes
load_json_records_from_bytes(loaded, records_path) ==
    IF ~loaded.ok THEN Raised("Invalid JSON payload.")
    ELSE IF records_path = "" \/ Strip(records_path) \in {"$", "$."}
    THEN Returned(auto_detect_records(loaded.data))
    ELSE records_at(descend(loaded.data, PathParts(Strip(records_path)), records_path),
                    records_path)

\* objects of the documents
JsonElements ==
    {JsonObject(<<Pair("id", IntV(1))>>),
     JsonObject(<<Pair("id", IntV(2))>>),
     JsonObject(<<Pair("id", IntV(1)), Pair("tags", JsonArray(<<StrV("a"), StrV("b")>>))>>),
     JsonObject(<<Pair("meta", JsonObject(<<Pair("k", StrV("a"))>>)), Pair("name", StrV("a")),
                  Pair("id", IntV(2))>>),
     JsonObject(<<Pair("rows", JsonArray(<<JsonObject(<<Pair("id", IntV(1))>>)>>))>>),
     JsonObject(<<Pair("tags", JsonArray(<<>>))>>),
     JsonObject(<<>>)}

ArraysOf(items) == {JsonArray(a) : a \in UNION {[1..n -> items] : n \in 0..MaxItems}}

\* arrays of the plain objects and a number
SmallArrays ==
    ArraysOf({JsonObject(<<Pair("id", IntV(1))>>), JsonObject(<<Pair("id", IntV(2))>>),
              IntV(1)})

\* the documents: arrays at the root, under one or two top-level keys, and
\* one level further down; an object without arrays and scalars
JsonDocuments ==
    ArraysOf(JsonElements \cup {IntV(1), StrV("a")})
    \cup {JsonObject(<<Pair("data", a)>>) : a \in SmallArrays}
    \cup {JsonObject(<<Pair("a", a), Pair("b", b)>>) : a \in SmallArrays, b \in SmallArrays}
    \cup {JsonObject(<<Pair("data", JsonObject(<<Pair("items", a)>>))>>) : a \in SmallArrays}
    \cup {JsonObject(<<Pair("id", IntV(1))>>), IntV(1), StrV("a"), NoneV}

RecordsPaths == {"", "$", "data.items", "$.data", "0"}

\* a document is uploaded: its bytes are valid JSON or not
InitJson ==
    /\ tasks = {}
    /\ importFiles = {}
    /\ uploads = [u \in UploadIds |-> NoUpload]
    /\ permFiles = {}
    /\ nextUpload = 0
    /\ nreq = 0
    /\ wk = [w \in Workers |-> Idle]
    /\ eng = NoRun
    /\ conv \in {[NoConversion EXCEPT !.loaded = l, !.records_path = p,
                                      !.stage = "received"] :
                    l \in {[ok |-> TRUE, data |-> d] : d \in JsonDocuments}
                          \cup {[ok |-> FALSE, data |-> NoneV]},
                    p \in RecordsPaths}
    /\ rd = NoRead
    /\ qc = NoQc

\* line 75, r what load_json_records_from_bytes returned or raised
json_loaded(c, r) ==
    IF r.ok THEN [c EXCEPT !.stage = "loaded", !.records = r.value]
    ELSE [c EXCEPT !.stage = "failed", !.error = r.error]

\* the records of the document are loaded, or the conversion fails
JsonLoad ==
    /\ conv.stage = "received"
    /\ conv' = json_loaded(conv, load_json_records_from_bytes(conv.loaded, conv.records_path))
    /\ UNCHANGED <<tasks, importFiles, uploads, permFiles, nextUpload, nreq, wk, eng, rd, qc>>

\* line 76: the next record is flattened
JsonFlatten ==
    /\ conv.stage = "loaded"
    /\ Len(conv.flattened) < Len(conv.records)
    /\ conv' = [conv EXCEPT !.flattened =
                    Append(@, flatten_record(conv.records[Len(conv.flattened) + 1], ""))]
    /\ UNCHANGED <<tasks, importFiles, uploads, permFiles, nextUpload, nreq, wk, eng, rd, qc>>

\* seen.setdefault(str(key), None) for the keys of one flat row
RECURSIVE seen_keys(_, _)
seen_keys(pairs, seen) ==
    IF pairs = <<>> THEN seen
    ELSE seen_keys(Tail(pairs),
            IF \E j \in 1..Len(seen) : seen[j] = Head(pairs).key THEN seen
            ELSE Append(seen, Head(pairs).key))

\* lines 168-171: the keys of all rows in first-seen order
RECURSIVE seen_columns(_, _)
seen_columns(flat_rows, seen) ==
    IF flat_rows = <<>> THEN seen
    ELSE seen_columns(Tail(flat_rows), seen_keys(Head(flat_rows), seen))

\* lines 174-186
priority ==
    <<"id", "task_id", "taskId", "external_id", "externalId", "title", "name",
      "file", "file_name", "fileName", "media.url">>

Among(key, keys) == \E j \in 1..Len(keys) : keys[j] = key

\* the columns as they were first seen, nothing moved to the front
columns_as_seen(ordered) == ordered

\* lines 187-189: the priority keys that occur, then the other keys
prioritized_first(ordered) ==
    SelectSeq(priority, LAMBDA key : Among(key, ordered))
    \o SelectSeq(ordered, LAMBDA key : ~Among(key, priority))

\* order_columns
order_columns(flat_rows) ==
    IF flat_rows = <<>> THEN <<>>
    ELSE prioritized_first(seen_columns(flat_rows, <<>>))

\* line 77: the columns of the flattened records are ordered
JsonOrder ==
    /\ conv.stage = "loaded"
    /\ Len(conv.flattened) = Len(conv.records)
    /\ conv' = [conv EXCEPT !.stage = "ordered", !.columns = order_columns(conv.flattened)]
    /\ UNCHANGED <<tasks, importFiles, uploads, permFiles, nextUpload, nreq, wk, eng, rd, qc>>

NextJson ==
    \/ JsonLoad
    \/ JsonFlatten
    \/ JsonOrder

SpecJson == InitJson /\ [][NextJson]_vars

-----------------------------------------------------------------------------

(* Reading the rows of a source: stream_excel_rows over a worksheet (its     *)
(* header row, then its data rows one by one) and prepare_dataset_rows over *)
(* inline rows                                                              *)

MaxCols == 3      \* cells of a header row
MaxRows == 2      \* data rows of a worksheet

\* a float cell that is NaN
NaNV == [t |-> "float", s |-> "nan"]

\* _sanitize_value
sanitize_value(value) == IF value.t = "float" /\ value.s = "nan" THEN NoneV ELSE value

\* lines 309-311: the name of header cell idx (0-based) before disambiguation
header_base(idx, raw) ==
    IF raw = NoneV \/ raw = StrV("") \/ raw = StrV("None")
    THEN "column_" \o ToString(idx + 1)
    ELSE IF Strip(raw.s) = "" THEN "column_" \o ToString(idx + 1)
    ELSE Strip(raw.s)

\* counts.get(base, 0)
count_of(counts, base) == IF base \in DOMAIN counts THEN counts[base] ELSE 0

\* lines 312-316: the key of a header whose base was seen `counter` times
header_key(base, counter) ==
    IF counter # 0 THEN base \o "_" \o ToString(counter + 1) ELSE base

\* the loop of _prepare_headers from cell idx on
RECURSIVE prepare_headers_from(_, _, _, _)
prepare_headers_from(header_row, idx, headers, counts) ==
    IF idx >= Len(header_row) THEN headers
    ELSE prepare_headers_from(header_row, idx + 1,
            Append(headers,
                   header_key(header_base(idx, header_row[idx + 1]),
                              count_of(counts, header_base(idx, header_row[idx + 1])))),
            SetKey(counts, header_base(idx, header_row[idx + 1]),
                   count_of(counts, header_base(idx, header_row[idx + 1])) + 1))

\* _prepare_headers
prepare_headers(header_row) == prepare_headers_from(header_row, 0, <<>>, <<>>)

\* lines 294-297: the cell of column idx (1-based here) of a row of values
cell_of(values, idx) == IF idx <= Len(values) THEN sanitize_value(values[idx]) ELSE NoneV

\* lines 294-297: the record of a row; of two columns of one name the later
\* one stays
record_of(headers, values) ==
    [h \in {headers[i] : i \in 1..Len(headers)} |->
        cell_of(values, CHOOSE i \in 1..Len(headers) :
                    /\ headers[i] = h
                    /\ \A j \in (i + 1)..Len(headers) : headers[j] # h)]

\* the rows numbered by their position among the rows yielded
stream_step_counting_yielded(r, row_index, record) ==
    IF row_is_empty(record) THEN [r EXCEPT !.pos = @ + 1]
    ELSE [r EXCEPT !.pos = @ + 1,
                   !.yielded = Append(@, [n |-> Len(r.yielded) + 2, record |-> record])]

\* lines 298-300: the record of the row at row_index is yielded unless blank
stream_step(r, row_index, record) ==
    IF row_is_empty(record) THEN [r EXCEPT !.pos = @ + 1]
    ELSE [r EXCEPT !.pos = @ + 1,
                   !.yielded = Append(@, [n |-> row_index, record |-> record])]

\* header cells
HeaderCells == {StrV("a"), StrV("a_2"), NoneV, StrV("column_2")}

\* rows of values: cells for three columns, a short row, blank rows
ValueRows ==
    {<<StrV("x"), StrV("y"), StrV("z")>>,
     <<StrV("x")>>,
     <<NoneV, StrV("  "), NaNV>>,
     <<>>}

HeaderRows == UNION {[1..n -> HeaderCells] : n \in 1..MaxCols}
DataRows == UNION {[1..n -> ValueRows] : n \in 0..MaxRows}

\* inline rows with blank rows among them
InlineRecords ==
    {[id |-> StrV("T1"), name |-> StrV("Alpha")],
     [id |-> NoneV, name |-> StrV("  ")],
     [name |-> StrV("Beta")],
     [id |-> NoneV]}

InlineBatches == UNION {[1..n -> InlineRecords] : n \in 1..(MaxRows + 1)}

\* the column names of sources that come without a mapping
ColumnNames == {"id", "Name", "name", "username", "File_URL", "filepath", "title"}
ColumnLists == UNION {[1..n -> ColumnNames] : n \in 0..MaxCols}

\* a worksheet is opened for streaming, or inline rows are given, or the
\* columns of a source are there and the request has no mapping
InitRead ==
    /\ tasks = {}
    /\ importFiles = {}
    /\ uploads = [u \in UploadIds |-> NoUpload]
    /\ permFiles = {}
    /\ nextUpload = 0
    /\ nreq = 0
    /\ wk = [w \in Workers |-> Idle]
    /\ eng = NoRun
    /\ conv = NoConversion
    /\ qc = NoQc
    /\ rd \in {[NoRead EXCEPT !.mode = "sheet", !.header_row = h, !.data = d] :
                    h \in HeaderRows, d \in DataRows}
              \cup {[NoRead EXCEPT !.mode = "rows", !.inline = b] : b \in InlineBatches}
              \cup {[NoRead EXCEPT !.mode = "columns", !.headers = c] : c \in ColumnLists}

\* lines 288-292: the header row is read and the column names are prepared
StreamHeaders ==
    /\ rd.mode = "sheet"
    /\ rd' = [rd EXCEPT !.mode = "stream", !.headers = prepare_headers(rd.header_row)]
    /\ UNCHANGED <<tasks, importFiles, uploads, permFiles, nextUpload, nreq, wk, eng, conv, qc>>

\* lines 293-300: the next data row; the first one is row 2
StreamRow ==
    /\ rd.mode = "stream"
    /\ rd.pos < Len(rd.data)
    /\ rd' = stream_step(rd, rd.pos + 2, record_of(rd.headers, rd.data[rd.pos + 1]))
    /\ UNCHANGED <<tasks, importFiles, uploads, permFiles, nextUpload, nreq, wk, eng, conv, qc>>

\* prepare_dataset_rows over the inline rows
PrepareRows ==
    /\ rd.mode = "rows"
    /\ rd' = [rd EXCEPT !.mode = "prepared", !.pos = Len(rd.inline),
                        !.yielded = prepare_dataset_rows(rd.inline, PREVIEW_LIMIT).prepared]
    /\ UNCHANGED <<tasks, importFiles, uploads, permFiles, nextUpload, nreq, wk, eng, conv, qc>>

\* preview_import lines 276-277: no mapping in the request, one is suggested
SuggestMapping ==
    /\ rd.mode = "columns"
    /\ rd' = [rd EXCEPT !.mode = "suggested",
                        !.mapping = suggest_mapping_from_columns(rd.headers)]
    /\ UNCHANGED <<tasks, importFiles, uploads, permFiles, nextUpload, nreq, wk, eng, conv, qc>>

NextRead ==
    \/ StreamHeaders
    \/ StreamRow
    \/ PrepareRows
    \/ SuggestMapping

SpecRead == InitRead /\ [][NextRead]_vars

-----------------------------------------------------------------------------

\* one worker takes the requests one after the other, over all request shapes
Next ==
    \/ JsonToExcel
    \/ ProcessServerFile
    \/ Preview("w1")
    \/ ConfirmBegin("w1", ProjectIds, InlineSources \cup {<<>>}, Mappings)
    \/ ConfirmPrecheck("w1")
    \/ ConfirmStore("w1")
    \/ ConfirmCommit("w1")

Spec == Init /\ [][Next]_vars

\* two workers confirm concurrently: their steps interleave in every order
NextRace ==
    \/ JsonToExcel
    \/ ProcessServerFile
    \/ \E w \in Workers : ConfirmBegin(w, Projects, {<<>>}, {ByColumn})
    \/ \E w \in Workers : ConfirmPrecheck(w)
    \/ \E w \in Workers : ConfirmStore(w)
    \/ \E w \in Workers : ConfirmCommit(w)

SpecRace == Init /\ [][NextRace]_vars

-----------------------------------------------------------------------------
(* Properties of the confirm transaction *)

DuplicateText == "Duplicate task_id in upload; skipped."
ExistsText == "task_id already exists for this project; skipped."
NotSerializableText == "Payload is not JSON serializable; skipped."

\* the positions of the issues with the given message text
issues_with(issues, text) == {k \in 1..Len(issues) : issues[k].message.text = text}

\* the step from worker state `me` to `after` ends the commit of a confirm
commit_ended(me, after) == me.pc = "commit" /\ after.pc = "done"

\* (project_id, task_id) of the rows a table holds
keys_of(table) == {<<t.project_id, t.task_id>> : t \in table}

\* the surviving rows of `me` meet a row of the table on (project_id, task_id)
meets_table(me, table) ==
    \E i \in 1..Len(me.pending) : <<me.project, me.pending[i].task_id>> \in keys_of(table)

\* what a commit that ended did to the tables (t0, f0 before, t1, f1 after)
commit_outcome(me, after, t0, f0, t1, f1) ==
    /\ \/ /\ after.resp.status = 200
          /\ after.resp.inserted = Len(me.pending)
          /\ t0 \subseteq t1
          /\ Cardinality(t1 \ t0) = Len(me.pending)
          /\ keys_of(t1 \ t0) = {<<me.project, me.pending[i].task_id>> :
                                    i \in 1..Len(me.pending)}
          /\ f0 \subseteq f1
          /\ f1 \ f0 = {[id |-> me.serial, project_id |-> me.project,
                         file_name |-> me.stored]}
       \/ /\ after.resp.status # 200
          /\ after.resp.inserted = 0
          /\ t1 = t0
          /\ f1 = f0
    /\ (meets_table(me, t0) /\ \A i \in 1..Len(me.pending) :
                                    is_json_serializable(me.pending[i].payload))
            => after.resp.status = 409

\* C1: a confirm is all-or-nothing. The commit of a confirm either adds one
\* import-file row and every surviving row of the confirm, or, when the store
\* rejects it, is answered as a conflict (409) and leaves the task table and
\* the import-file table exactly as they were; no other step changes the tables.
C1_ConfirmAllOrNothing ==
    [][/\ \A w \in Workers :
            commit_ended(wk[w], wk'[w]) =>
                commit_outcome(wk[w], wk'[w], tasks, importFiles, tasks', importFiles')
       /\ (tasks' # tasks \/ importFiles' # importFiles) =>
            \E w \in Workers : commit_ended(wk[w], wk'[w]) /\ wk'[w].resp.status = 200
      ]_vars

\* a confirm was answered 409 for rows it handed to the store, after another
\* confirm's rows were committed; none of its rows and no import file of it is kept
C1_Witness ==
    \E w \in Workers :
        /\ wk[w].pc = "done" /\ wk[w].resp.status = 409
        /\ wk[w].resp.rows # <<>>
        /\ tasks # {} /\ importFiles # {}
        /\ \A f \in importFiles : f.id # wk[w].serial

\* C2: no two persisted rows share (project_id, task_id); of two confirms racing
\* to insert the same key exactly one commits, the other is answered 409 with
\* none of its rows kept, and no step of a confirm waits for the other worker.
C2_UniqueTaskIdPerProject ==
    /\ \A a, b \in tasks :
            (a.project_id = b.project_id /\ a.task_id = b.task_id) => a = b
    /\ \A w \in Workers :
            (wk[w].pc = "done" /\ wk[w].resp.status = 409) =>
                \A t \in tasks : t.id[1] # wk[w].serial
    /\ \A w \in Workers :
            /\ wk[w].pc = "precheck" => ENABLED ConfirmPrecheck(w)
            /\ wk[w].pc = "store" => ENABLED ConfirmStore(w)
            /\ wk[w].pc = "commit" => ENABLED ConfirmCommit(w)

\* both workers confirmed the same task_id for one project: one inserted it,
\* the other was answered 409
C2_Witness ==
    \E w, v \in Workers :
        /\ wk[w].pc = "done" /\ wk[w].resp.status = 200 /\ wk[w].resp.inserted > 0
        /\ wk[v].pc = "done" /\ wk[v].resp.status = 409
        /\ wk[w].project = wk[v].project
        /\ \E i \in 1..Len(wk[w].resp.rows), j \in 1..Len(wk[v].resp.rows) :
                wk[w].resp.rows[i].task_id = wk[v].resp.rows[j].task_id

\* C3: the temporary artifacts of an upload are removed only by a confirm that
\* succeeded with at least one row inserted; a confirm that ended otherwise
\* removed none, so it can be retried.
C3_ArtifactsRemovedOnlyOnSuccess ==
    \A w \in Workers :
        (wk[w].pc = "done" /\ wk[w].op = "confirm" /\ wk[w].removed # {}) =>
            (wk[w].resp.status = 200 /\ wk[w].resp.inserted > 0)

-----------------------------------------------------------------------------
(* Properties of the scan and of the pre-check *)

\* the task_ids of a list of rows
ids_of(rows) == {rows[i].task_id : i \in 1..Len(rows)}

\* the row numbers of a list of rows (n of a streamed row, row of a PreviewRow)
numbers_of(rows) == {rows[i].row : i \in 1..Len(rows)}
streamed_numbers(iter) == {iter[i].n : i \in 1..Len(iter)}

\* what the scan of a confirm left in the worker state `me`
scan_result(me) ==
    /\ \A i, j \in 1..Len(me.pending) :
            i # j => me.pending[i].task_id # me.pending[j].task_id
    /\ me.skipped = Cardinality(issues_with(me.issues, DuplicateText))
    /\ \A k \in issues_with(me.issues, DuplicateText) :
            \E i \in 1..Len(me.pending) :
                /\ me.pending[i].task_id = me.issues[k].message.arg
                /\ me.pending[i].row < me.issues[k].row
    /\ ~me.has_rows =>
            /\ streamed_numbers(stream_from(me.before.book.rows, 1)) =
                    numbers_of(me.pending) \cup
                    {me.issues[k].row : k \in issues_with(me.issues, DuplicateText)}
            /\ numbers_of(me.pending) \cap
                    {me.issues[k].row : k \in issues_with(me.issues, DuplicateText)} = {}

\* C4: within one confirm the first occurrence of a task_id is the survivor;
\* each later occurrence adds one to skipped and one duplicate issue, the scan
\* goes on with the rows after it, and no two rows inserted by one confirm
\* share a task_id.
C4_FirstOccurrenceSurvives ==
    /\ \A w \in Workers : wk[w].pc = "precheck" => scan_result(wk[w])
    /\ \A a, b \in tasks : (a.id[1] = b.id[1] /\ a.task_id = b.task_id) => a = b

\* a scan that skipped a duplicate and kept a row that comes after it
C4_Witness ==
    \E w \in Workers :
        /\ wk[w].pc = "precheck"
        /\ \E k \in issues_with(wk[w].issues, DuplicateText) :
            /\ \E i \in 1..Len(wk[w].pending) : wk[w].pending[i].row > wk[w].issues[k].row
            /\ \E i \in 1..Len(wk[w].pending) :
                    wk[w].pending[i].task_id = wk[w].issues[k].message.arg

\* C5: the issue recorded for an in-batch duplicate references the row number
\* of the first occurrence of the task_id (the number kept in seen_ids).
C5_DuplicateIssueNamesFirstRow ==
    \A w \in Workers :
        wk[w].pc = "precheck" =>
            \A k \in issues_with(wk[w].issues, DuplicateText) :
                wk[w].issues[k].row = wk[w].seen_ids[wk[w].issues[k].message.arg]

\* the task_ids of the scan that the table holds for the project of `me`
persisted_ids(me, table) ==
    {tid \in DOMAIN me.seen_ids : <<me.project, tid>> \in keys_of(table)}

\* the issues a worker state carries: of the response once it is done
errors_of(after) == IF after.pc = "done" THEN after.resp.errors ELSE after.issues
skipped_of(after) == IF after.pc = "done" THEN after.resp.skipped ELSE after.skipped

\* what the pre-check did: `me` before it, `after` after it
precheck_outcome(me, after, table) ==
    /\ ids_of(after.pending) = (DOMAIN me.seen_ids) \ persisted_ids(me, table)
    /\ \A tid \in persisted_ids(me, table) :
            \E k \in 1..Len(errors_of(after)) :
                errors_of(after)[k] = Issue(me.seen_ids[tid], Msg(ExistsText, tid))
    /\ Cardinality(issues_with(errors_of(after), ExistsText)) =
            Cardinality(persisted_ids(me, table))
    /\ issues_with(errors_of(after), ExistsText) \cap
            issues_with(errors_of(after), DuplicateText) = {}
    /\ skipped_of(after) >= me.skipped + Cardinality(persisted_ids(me, table))
    /\ after.pc = "done" => (after.resp.status = 200 /\ after.resp.inserted = 0)

\* C6: before the store is used, every surviving candidate whose task_id is
\* already persisted for the target project is dropped, counted as skipped
\* and reported with an "already exists" issue of its own kind; the other
\* candidates stay, also those whose task_id is persisted for another project.
C6_PersistedIdsDropped ==
    [][\A w \in Workers :
            (wk[w].pc = "precheck" /\ wk'[w].pc # "precheck") =>
                precheck_outcome(wk[w], wk'[w], tasks)]_vars

\* a pre-check that dropped a persisted task_id and kept another candidate
C6_Witness ==
    \E w \in Workers :
        /\ wk[w].pc = "store"
        /\ issues_with(wk[w].issues, ExistsText) # {}
        /\ wk[w].pending # <<>>

\* C7: a candidate whose payload cannot be serialised to JSON is dropped
\* before the rows are handed to the store: no row reported with that issue
\* is among the rows the confirm goes on with.
C7_NonSerializableDropped ==
    \A w \in Workers :
        wk[w].pc \in {"store", "commit"} =>
            /\ \A i \in 1..Len(wk[w].pending) :
                    is_json_serializable(wk[w].pending[i].payload)
            /\ \A k \in issues_with(wk[w].issues, NotSerializableText) :
                    wk[w].issues[k].message.arg \notin ids_of(wk[w].pending)

-----------------------------------------------------------------------------
(* Properties of the requests *)

\* the step answers a preview request
preview_answered(n0, n1, after) ==
    n1 = n0 + 1 /\ \E w \in Workers : after[w].op = "preview" /\ after[w].serial = n1

\* C8: a preview changes nothing a confirm reads: the task table, the
\* import-file table, the upload artifacts and the stored import files are
\* the same after it as before.
C8_PreviewChangesNothing ==
    [][preview_answered(nreq, nreq', wk') =>
            UNCHANGED <<tasks, importFiles, uploads, permFiles, nextUpload>>]_vars

\* a preview that returned rows of an upload whose artifacts are still there
C8_Witness ==
    \E w \in Workers :
        /\ wk[w].pc = "done" /\ wk[w].op = "preview"
        /\ wk[w].resp.status = 200 /\ wk[w].resp.rows # <<>>
        /\ \E u \in UploadIds : uploads[u].xlsx /\ uploads[u].meta

\* the confirm of worker state `me` named an upload whose workbook was not there
missing_upload(me) ==
    me.pc = "done" /\ me.op = "confirm" /\ me.upload # 0 /\ ~me.before.xlsx

\* C9 as stated: a confirm that references an upload whose workbook does not
\* exist (never created, or removed by an earlier successful confirm) fails
\* with a not-found error and inserts no row.
C9_MissingUploadNotFound ==
    \A w \in Workers :
        (missing_upload(wk[w]) /\ wk[w].project \in Projects) =>
            (wk[w].resp.status = 404 /\ wk[w].resp.inserted = 0)

\* C9 amended: a confirm WITHOUT inline rows that references an upload whose
\* workbook does not exist is rejected 404 "Excel upload not found." (404
\* "Project not found." when the project does not exist either); it hands no
\* row to the store, removes no artifact and none of its rows is persisted.
C9_MissingUploadWithoutRowsNotFound ==
    \A w \in Workers :
        (missing_upload(wk[w]) /\ ~wk[w].has_rows) =>
            /\ wk[w].resp.status = 404
            /\ wk[w].resp.detail = IF wk[w].project \in Projects
                                   THEN "Excel upload not found."
                                   ELSE "Project not found."
            /\ wk[w].resp.inserted = 0
            /\ wk[w].resp.rows = <<>>
            /\ wk[w].removed = {}
            /\ \A t \in tasks : t.id[1] # wk[w].serial
            /\ \A f \in importFiles : f.id # wk[w].serial

\* a confirm answered "Excel upload not found." for an upload id that was
\* handed out: its workbook was removed by the successful confirm before it
C9_Witness ==
    \E w \in Workers :
        /\ missing_upload(wk[w]) /\ ~wk[w].has_rows
        /\ wk[w].resp.detail = "Excel upload not found."
        /\ wk[w].upload <= nextUpload
        /\ tasks # {}

\* C10: every preview and every confirm ends either rejected with a 4xx
\* response or with a success response.
C10_RequestsEndRejectedOrSucceeded ==
    \A w \in Workers :
        wk[w].pc = "done" =>
            (wk[w].resp.status = 200 \/ wk[w].resp.status \in 400..499)

-----------------------------------------------------------------------------
(* Properties of the mapping engine *)

\* the configuration of the task_id of the run
task_id_config == eng.mapping.core.task_id

\* the passes of the run so far: the finished ones and the current one
passes == Append(eng.earlier, eng.out)

\* a candidate has its three core fields non-empty
core_fields_filled(c) == c.task_id # "" /\ c.task_name # "" /\ c.file_name # ""

\* C11: for every mapping and every record process_row returns a candidate
\* whose task_id, task_name and file_name are non-empty strings: every row
\* given to it has its candidate, whatever the columns hold and whether or not
\* transforms or the expression fail.
C11_CoreFieldsNonEmpty ==
    /\ Len(eng.out) = eng.i
    /\ \A p \in 1..Len(passes) : \A k \in 1..Len(passes[p]) :
            /\ core_fields_filled(passes[p][k].row)
            /\ passes[p][k].row.row = eng.rows[k].n

\* a candidate all of whose core fields fell back: generated task_id, default
\* task_name and default file_name
C11_Witness ==
    \E k \in 1..Len(eng.out) :
        /\ eng.out[k].row.task_id = Uuid(eng.pass, eng.out[k].row.row)
        /\ eng.out[k].row.task_name = "Untitled"
        /\ eng.out[k].row.file_name = "row_" \o ToString(eng.out[k].row.row - 1) \o ".dat"
        /\ task_id_config.mode = "COLUMN"

\* the strategies that draw a sequence value for every row
draws_sequence(config) ==
    config.mode = "GENERATE" /\ config.strategy \in {"seq_per_batch", "expr"}

\* C12: the sequence values drawn from one runtime are 1, 2, 3, ...; every
\* pass starts with a fresh runtime, so the k-th row processed in a pass gets
\* task_id str(k) under seq_per_batch and sees seq = k under expr, also after
\* rows whose expression failed.
C12_SequenceCountsRowsOfPass ==
    /\ draws_sequence(task_id_config) =>
            /\ eng.sequence = Len(eng.out)
            /\ \A p \in 1..Len(passes) : \A k \in 1..Len(passes[p]) :
                    /\ passes[p][k].seq = k
                    /\ task_id_config.strategy = "seq_per_batch" =>
                            passes[p][k].row.task_id = ToString(k)
                    /\ (task_id_config.strategy = "expr"
                        /\ task_id_config.expression = "seq") =>
                            passes[p][k].row.task_id = ToString(k)
    /\ ~draws_sequence(task_id_config) => eng.sequence = 0

\* the second row of the second pass saw seq = 2 after a row whose expression
\* had failed
C12_Witness ==
    /\ eng.pass = 2
    /\ Len(eng.out) = 2
    /\ task_id_config.mode = "GENERATE" /\ task_id_config.strategy = "expr"
    /\ \E j \in 1..Len(eng.out[1].issues) :
            eng.out[1].issues[j].text = "task_id expr failed -> "
    /\ eng.out[2].seq = 2

\* the run of the scenario: seq_per_batch, task_name read as it is, the
\* file_name column in no row, no payload selection, and every row with a
\* task_name value (so that no row was dropped as blank before another)
sequential_naming_run ==
    /\ eng.mapping = EngineMapping(GenerateConfig("seq_per_batch"),
                                   ColumnConfig("name", <<>>), <<>>)
    /\ \A k \in 1..Len(eng.rows) :
            /\ eng.rows[k].n = k + 1
            /\ ~IsEmptyValue(Get(eng.rows[k].record, "name"))

\* the n-th candidate of that run, but for its issues
sequential_candidate(k, o) ==
    /\ o.row.task_id = ToString(k)
    /\ o.row.task_name = Get(eng.rows[k].record, "name").s
    /\ o.row.file_name = "row_" \o ToString(k) \o ".dat"
    /\ o.row.payload = <<>>

\* C13 as stated: in that run the n-th row yields task_id str(n), its own
\* task_name, file_name "row_<n>.dat", and the run produces zero issues.
C13_SequentialRunWithoutIssues ==
    sequential_naming_run =>
        \A k \in 1..Len(eng.out) :
            sequential_candidate(k, eng.out[k]) /\ eng.out[k].issues = <<>>

\* C13 amended: in that run the n-th row yields task_id str(n), its own
\* task_name and file_name "row_<n>.dat", and each row records exactly one
\* issue, the one of the defaulted file name, "<column> empty -> using default".
C13_SequentialRunWithDefaultIssue ==
    sequential_naming_run =>
        \A k \in 1..Len(eng.out) :
            /\ sequential_candidate(k, eng.out[k])
            /\ eng.out[k].issues = <<Msg("file empty -> using default", "")>>

\* two rows with the same task_name went through: ids "1" and "2"
C13_Witness ==
    /\ sequential_naming_run
    /\ Len(eng.out) = 2
    /\ eng.out[1].row.task_name = "Alpha" /\ eng.out[2].row.task_name = "Alpha"
    /\ eng.out[2].row.task_id = "2"

\* the task_id configurations other than the uuid_v4 and expr strategies
repeatable_config(config) ==
    config.mode = "COLUMN" \/ config.strategy = "seq_per_batch"

\* the transformed value r of the task_id column is there
value_present(r) == r.ok /\ ~IsEmptyValue(r.value)

\* the task_id of row k is read from its column and is there
task_id_read(k) ==
    /\ task_id_config.mode = "COLUMN"
    /\ value_present(apply_transforms(Get(eng.rows[k].record, task_id_config.name),
                                      task_id_config.transforms))

\* the task_id of row k is replaced by a generated identifier
task_id_replaced(k) ==
    /\ task_id_config.mode = "COLUMN"
    /\ ~value_present(apply_transforms(Get(eng.rows[k].record, task_id_config.name),
                                       task_id_config.transforms))

\* two candidates agree but for their task_id
same_but_task_id(a, b) ==
    /\ a.row = b.row
    /\ a.task_name = b.task_name
    /\ a.file_name = b.file_name
    /\ a.payload = b.payload

\* C14 as stated: two passes over the same rows and mapping, each with a fresh
\* runtime, yield identical candidates whenever the task_id configuration is
\* seq_per_batch or column mode, also when the task_id column is absent or
\* empty.
C14_PassesIdentical ==
    repeatable_config(task_id_config) =>
        \A p \in 1..Len(eng.earlier) : \A k \in 1..Len(eng.out) :
            eng.earlier[p][k].row = eng.out[k].row

\* C14 amended: under seq_per_batch and column mode two passes agree on
\* task_name, file_name and payload of every row; they agree on the task_id
\* under seq_per_batch and when the column's transformed value is there, and
\* when that value is missing or its transform fails each pass generates its
\* own identifier, so the task_ids differ.
C14_PassesIdenticalButGeneratedIds ==
    repeatable_config(task_id_config) =>
        \A p \in 1..Len(eng.earlier) : \A k \in 1..Len(eng.out) :
            /\ same_but_task_id(eng.earlier[p][k].row, eng.out[k].row)
            /\ eng.earlier[p][k].issues = eng.out[k].issues
            /\ (task_id_config.mode = "GENERATE" \/ task_id_read(k)) =>
                    eng.earlier[p][k].row.task_id = eng.out[k].row.task_id
            /\ task_id_read(k) =>
                    eng.out[k].row.task_id =
                        apply_transforms(Get(eng.rows[k].record, task_id_config.name),
                                         task_id_config.transforms).value.s
            /\ task_id_replaced(k) =>
                    /\ eng.earlier[p][k].row.task_id = Uuid(p, eng.rows[k].n)
                    /\ eng.out[k].row.task_id = Uuid(eng.pass, eng.rows[k].n)
                    /\ eng.earlier[p][k].row.task_id # eng.out[k].row.task_id

\* a second pass went over two rows in column mode: the first has its task_id
\* from the column in both passes, the second a generated one in each
C14_Witness ==
    /\ eng.pass = 2
    /\ Len(eng.out) = 2
    /\ task_id_read(1)
    /\ task_id_replaced(2)
    /\ eng.earlier[1][1].row.task_id = eng.out[1].row.task_id
    /\ eng.earlier[1][2].row.task_id # eng.out[2].row.task_id

\* the run resolves the task_id by an expression
expr_run == task_id_config.mode = "GENERATE" /\ task_id_config.strategy = "expr"

\* what ast.parse makes of the expression of the run
expr_parsed == ParseExpression(Strip(task_id_config.expression))

\* the tree n contains a function call, an attribute access, a name other
\* than row_index, excel_row, seq and row, a subscript on anything but row,
\* or a row subscript whose key is not a constant
RECURSIVE contains_disallowed(_)
contains_disallowed(n) ==
    CASE n.node = "Call" -> TRUE
      [] n.node = "Attribute" -> TRUE
      [] n.node = "Name" -> n.id \notin {"row_index", "excel_row", "seq", "row"}
      [] n.node = "Subscript" ->
            \/ n.value # Name("row")
            \/ n.slice.node # "Constant"
      [] n.node = "Expression" -> contains_disallowed(n.body)
      [] n.node = "BinOp" -> contains_disallowed(n.left) \/ contains_disallowed(n.right)
      [] n.node = "UnaryOp" -> contains_disallowed(n.operand)
      [] n.node = "FormattedValue" -> contains_disallowed(n.value)
      [] n.node = "JoinedStr" ->
            \E j \in 1..Len(n.values) : contains_disallowed(n.values[j])
      [] OTHER -> FALSE

\* what the evaluator made of the expression for row k of the run
expr_outcome(k) ==
    safe_eval_expression(Strip(task_id_config.expression),
                         ExprContext(eng.rows[k].record, eng.rows[k].n, k))

\* the candidate o of row number n in pass p has a generated task_id and the
\* one issue of an expression that raised a ValueError
rejected_candidate(o, p, n) ==
    /\ o.row.task_id = Uuid(p, n)
    /\ Len(o.issues) >= 1
    /\ o.issues[1].text = "task_id expr failed -> "
    /\ \E message \in {"Attribute access is not allowed in expressions",
                       "Only row[...] subscripts are allowed",
                       "row[...] subscripts must use constant keys",
                       "Name 'name' is not allowed in expressions",
                       "Name 'len' is not allowed in expressions",
                       "Expression uses unsupported element 'Call'"} :
            o.issues[1].arg = "ValueError: " \o message

\* C15: an expression that contains a function call, an attribute access, a
\* name other than row_index, excel_row, seq and row, a subscript on anything
\* but row, or a row subscript with a key that is not a constant is rejected
\* by validation, before any evaluation: its outcome for every row is the
\* ValueError of the validation, and the row gets a generated task_id.
\* Whatever is evaluated names the context only, never a builtin.
C15_DisallowedRejectedBeforeEval ==
    (expr_run /\ expr_parsed.ok) =>
        \A k \in 1..Len(eng.out) :
            /\ contains_disallowed(expr_parsed.tree) =>
                    /\ expr_outcome(k).stage = "validate"
                    /\ ~expr_outcome(k).ok
                    /\ rejected_candidate(eng.out[k], eng.pass, eng.rows[k].n)
            /\ expr_outcome(k).stage = "eval" =>
                    /\ ~contains_disallowed(expr_parsed.tree)
                    /\ \A j \in 1..Len(walk(<<expr_parsed.tree>>)) :
                            walk(<<expr_parsed.tree>>)[j].node = "Name" =>
                                walk(<<expr_parsed.tree>>)[j].id
                                    \in DOMAIN ExprContext(eng.rows[k].record,
                                                           eng.rows[k].n, k)

\* a row went through an expression that reads an attribute of a row cell
C15_Witness ==
    /\ expr_run
    /\ task_id_config.expression = "row['id'].real"
    /\ Len(eng.out) >= 1
    /\ "id" \in DOMAIN eng.rows[1].record
    /\ eng.out[1].issues[1].arg =
            "ValueError: Attribute access is not allowed in expressions"

\* the issues of a candidate that are about its task_id
task_id_issues(o) ==
    {j \in 1..Len(o.issues) :
        o.issues[j].text \in {"task_id expr failed -> ",
                              "task_id expr empty -> generated uuid",
                              "task_id transform error -> ",
                              "task_id empty -> generated uuid"}}

\* the expression gave no task_id: it raised, or its result is empty
expr_gave_nothing(r) == ~r.ok \/ IsEmptyValue(r.value)

\* C16: under the expr strategy a parse error, a validation error, an
\* evaluation error and an empty result are absorbed by the row: the row has
\* its candidate with a generated task_id and exactly one task_id issue, and
\* the rows after it are processed as well (every row processed so far has
\* its candidate, and a row whose expression gave a value has that value as
\* its task_id and no task_id issue).
C16_ExprFailureAbsorbedPerRow ==
    expr_run =>
        /\ Len(eng.out) = eng.i
        /\ \A k \in 1..Len(eng.out) :
            /\ eng.out[k].row.row = eng.rows[k].n
            /\ expr_gave_nothing(expr_outcome(k)) =>
                    /\ eng.out[k].row.task_id = Uuid(eng.pass, eng.rows[k].n)
                    /\ Cardinality(task_id_issues(eng.out[k])) = 1
                    /\ eng.out[k].issues[1].text =
                            IF expr_outcome(k).ok
                            THEN "task_id expr empty -> generated uuid"
                            ELSE "task_id expr failed -> "
            /\ ~expr_gave_nothing(expr_outcome(k)) =>
                    /\ eng.out[k].row.task_id = expr_outcome(k).value.s
                    /\ task_id_issues(eng.out[k]) = {}

\* the expression raised TypeError for the first row, whose id is a string,
\* and the second row was processed after it and has its task_id
C16_Witness ==
    /\ expr_run
    /\ task_id_config.expression = "row['id'] + 1"
    /\ Len(eng.out) = 2
    /\ expr_outcome(1).stage = "eval" /\ ~expr_outcome(1).ok
    /\ eng.out[1].row.task_id = Uuid(eng.pass, eng.rows[1].n)
    /\ eng.out[2].row.task_id = "1"

\* the missing test as the specification states it: None, the empty string
\* and whitespace-only strings
value_is_missing(v) == v.t = "none" \/ (v.t = "str" /\ Strip(v.s) = "")

\* what a payload selection reads for a record: its literal, or the column's
\* transformed value
selection_value(sel, record) ==
    IF sel.mode = "CONSTANT" THEN Returned(sel.value)
    ELSE apply_transforms(Get(record, sel.column), sel.transforms)

\* the selection has a value to set when missing(_) is the missing test
selection_sets(missing(_), sel, record) ==
    \/ sel.mode = "CONSTANT"
    \/ /\ selection_value(sel, record).ok
       /\ ~missing(selection_value(sel, record).value)

\* the payload pl is what the selections sels make of the record, taken in
\* order: no key but the selections' keys, every key set by the last selection
\* that has a value for it, and a key absent when no selection has one
payload_follows(missing(_), sels, record, pl) ==
    /\ \A key \in DOMAIN pl : \E j \in 1..Len(sels) : sels[j].key = key
    /\ \A j \in 1..Len(sels) :
        IF selection_sets(missing, sels[j], record)
        THEN (\A l \in (j + 1)..Len(sels) :
                    sels[l].key = sels[j].key => ~selection_sets(missing, sels[l], record))
             => /\ sels[j].key \in DOMAIN pl
                /\ pl[sels[j].key] = selection_value(sels[j], record).value
        ELSE (\A l \in 1..Len(sels) :
                    sels[l].key = sels[j].key => ~selection_sets(missing, sels[l], record))
             => sels[j].key \notin DOMAIN pl

\* C17 as stated: the payload follows payload_selected in order: a column
\* selection with a missing transformed value (None, empty or whitespace-only
\* string) sets no key, a column selection with a present value sets its key
\* to that value, a constant selection always sets its key to its literal, and
\* no other key is in the payload.
C17_PayloadFollowsSelections ==
    \A k \in 1..Len(eng.out) :
        payload_follows(value_is_missing, eng.mapping.payload_selected,
                        eng.rows[k].record, eng.out[k].row.payload)

\* the transformed value of a core column of row k
core_value(k, config) ==
    apply_transforms(Get(eng.rows[k].record, config.name), config.transforms)

\* a core field read from a column is the default when its transformed value
\* r is missing as the specification defines it, and str(value) otherwise
core_by_definition(r, field, default) ==
    r.ok => field = (IF value_is_missing(r.value) THEN default ELSE r.value.s)

\* a payload key read from a column is absent when its transformed value r is
\* missing as the specification defines it, and holds the value otherwise
key_by_definition(r, key, pl) ==
    r.ok => IF value_is_missing(r.value) THEN key \notin DOMAIN pl
            ELSE key \in DOMAIN pl /\ pl[key] = r.value

\* C20 as stated: a transformed field value is missing exactly when it is
\* None, the empty string or a whitespace-only string: then task_id is a
\* generated identifier, task_name and file_name are their defaults and a
\* payload key is omitted; every other value, non-empty strings, lists, dicts
\* and numbers with 0 and false among them, is kept.
C20_MissingExactlyByDefinition ==
    \A k \in 1..Len(eng.out) :
        /\ task_id_config.mode = "COLUMN" =>
                core_by_definition(core_value(k, task_id_config),
                                   eng.out[k].row.task_id,
                                   Uuid(eng.pass, eng.rows[k].n))
        /\ core_by_definition(core_value(k, eng.mapping.core.task_name),
                              eng.out[k].row.task_name, "Untitled")
        /\ core_by_definition(core_value(k, eng.mapping.core.file_name),
                              eng.out[k].row.file_name,
                              "row_" \o ToString(eng.rows[k].n - 1) \o ".dat")
        /\ \A j \in 1..Len(eng.mapping.payload_selected) :
                (/\ eng.mapping.payload_selected[j].mode = "COLUMN"
                 /\ \A l \in 1..Len(eng.mapping.payload_selected) :
                        l # j => eng.mapping.payload_selected[l].key
                                    # eng.mapping.payload_selected[j].key)
                => key_by_definition(
                        selection_value(eng.mapping.payload_selected[j],
                                        eng.rows[k].record),
                        eng.mapping.payload_selected[j].key,
                        eng.out[k].row.payload)

\* the candidate o records the transform error r of the field named name
error_recorded(o, name, r) ==
    \E j \in 1..Len(o.issues) :
        o.issues[j] = Msg(name \o " transform error -> ", r.error)

\* a core field read from a column whose transforms went through is resolved
\* as the code resolves it: the default for None, "" and [], else str(value)
core_resolved(r, field, default) ==
    r.ok => field = (IF IsEmptyValue(r.value) THEN default ELSE r.value.s)

\* a core field whose transform raised is the default, with the error recorded
core_fell_back(o, name, r, field, default) ==
    ~r.ok => field = default /\ error_recorded(o, name, r)

\* payload selection j of the run is the only one of its key
only_selection_of_key(j) ==
    \A l \in 1..Len(eng.mapping.payload_selected) :
        l # j => eng.mapping.payload_selected[l].key # eng.mapping.payload_selected[j].key

\* C18: a transform error of one field (unknown name, empty transform, or a
\* failure inside the transform) stays with that field: it is recorded as an
\* issue and the field is taken as missing, so task_id is a generated
\* identifier, task_name and file_name are their defaults and a payload key
\* is omitted; the other fields of the row are resolved from their own
\* values, and the row has its candidate.
C18_TransformErrorStaysWithField ==
    /\ Len(eng.out) = eng.i
    /\ \A k \in 1..Len(eng.out) :
        /\ eng.out[k].row.row = eng.rows[k].n
        /\ task_id_config.mode = "COLUMN" =>
            /\ core_fell_back(eng.out[k], "task_id", core_value(k, task_id_config),
                              eng.out[k].row.task_id, Uuid(eng.pass, eng.rows[k].n))
            /\ core_resolved(core_value(k, task_id_config), eng.out[k].row.task_id,
                             Uuid(eng.pass, eng.rows[k].n))
        /\ core_fell_back(eng.out[k], eng.mapping.core.task_name.name,
                          core_value(k, eng.mapping.core.task_name),
                          eng.out[k].row.task_name, "Untitled")
        /\ core_resolved(core_value(k, eng.mapping.core.task_name),
                         eng.out[k].row.task_name, "Untitled")
        /\ core_fell_back(eng.out[k], eng.mapping.core.file_name.name,
                          core_value(k, eng.mapping.core.file_name),
                          eng.out[k].row.file_name,
                          "row_" \o ToString(eng.rows[k].n - 1) \o ".dat")
        /\ core_resolved(core_value(k, eng.mapping.core.file_name),
                         eng.out[k].row.file_name,
                         "row_" \o ToString(eng.rows[k].n - 1) \o ".dat")
        /\ \A j \in 1..Len(eng.mapping.payload_selected) :
            (eng.mapping.payload_selected[j].mode = "COLUMN" /\ only_selection_of_key(j)) =>
                IF selection_value(eng.mapping.payload_selected[j], eng.rows[k].record).ok
                THEN selection_sets(IsEmptyValue, eng.mapping.payload_selected[j],
                                    eng.rows[k].record)
                     => /\ eng.mapping.payload_selected[j].key
                                \in DOMAIN eng.out[k].row.payload
                        /\ eng.out[k].row.payload[eng.mapping.payload_selected[j].key]
                                = selection_value(eng.mapping.payload_selected[j],
                                                  eng.rows[k].record).value
                ELSE /\ eng.mapping.payload_selected[j].key
                            \notin DOMAIN eng.out[k].row.payload
                     /\ error_recorded(eng.out[k], eng.mapping.payload_selected[j].column,
                            selection_value(eng.mapping.payload_selected[j],
                                            eng.rows[k].record))

\* a row whose task_id, file_name and first payload selection each had a
\* transform error of another kind (to_int failing, unknown name, empty
\* transform), and whose task_name and second payload selection are resolved
C18_Witness ==
    /\ task_id_config = ColumnConfig("id", <<"to_int(x)">>)
    /\ Len(eng.out) >= 1
    /\ ~core_value(1, task_id_config).ok
    /\ eng.out[1].row.task_id = Uuid(eng.pass, eng.rows[1].n)
    /\ eng.out[1].row.file_name = "row_" \o ToString(eng.rows[1].n - 1) \o ".dat"
    /\ error_recorded(eng.out[1], "name", Raised("unknown transform 'nope'"))
    /\ error_recorded(eng.out[1], "id", Raised("empty transform"))
    /\ eng.out[1].row.task_name = "Gamma"
    /\ DOMAIN eng.out[1].row.payload = {"n"}
    /\ eng.out[1].row.payload["n"] = StrV("Gamma")

-----------------------------------------------------------------------------
(* Properties of the JSON conversion *)

\* no explicit records path was given
auto_detected == conv.records_path = "" \/ Strip(conv.records_path) \in {"$", "$."}

\* the document is an object with one top-level key whose value is an object
\* with one key holding a non-empty array of objects
array_below_top_level(data) ==
    /\ data.t = "dict" /\ Len(data.items) = 1
    /\ data.items[1].value.t = "dict" /\ Len(data.items[1].value.items) = 1
    /\ data.items[1].value.items[1].value.t = "list"
    /\ data.items[1].value.items[1].value.items # <<>>
    /\ \A j \in 1..Len(data.items[1].value.items[1].value.items) :
            data.items[1].value.items[1].value.items[j].t = "dict"

\* the elements of that array
nested_elements(data) == data.items[1].value.items[1].value.items

\* the keys of an object, and of a flat record
keys_of_pairs(pairs) == {pairs[j].key : j \in 1..Len(pairs)}

\* C19 as stated: auto-detection over a root object whose array of objects is
\* nested below a top-level key yields one record per element of the array,
\* each flattened to the element's own keys.
C19_NestedArrayDetected ==
    (conv.stage = "loaded" /\ auto_detected /\ array_below_top_level(conv.loaded.data)) =>
        /\ Len(conv.records) = Len(nested_elements(conv.loaded.data))
        /\ \A k \in 1..Len(conv.flattened) :
                keys_of_pairs(conv.flattened[k])
                    = keys_of_pairs(nested_elements(conv.loaded.data)[k].items)

-----------------------------------------------------------------------------
(* Properties of the expression validator, continued *)

\* the tree n is built only from the constructs of the allow-list: literals,
\* the four bindings, arithmetic binary and unary operators, string
\* interpolation and row[<constant>]
RECURSIVE built_from_allow_list(_)
built_from_allow_list(n) ==
    CASE n.node = "Expression" -> built_from_allow_list(n.body)
      [] n.node = "Constant" -> TRUE
      [] n.node = "Name" -> n.id \in {"row_index", "excel_row", "seq", "row"}
      [] n.node = "BinOp" ->
            /\ n.op \in {"Add", "Sub", "Mult", "Div", "Mod"}
            /\ built_from_allow_list(n.left)
            /\ built_from_allow_list(n.right)
      [] n.node = "UnaryOp" -> n.op \in {"USub", "UAdd"} /\ built_from_allow_list(n.operand)
      [] n.node = "JoinedStr" ->
            \A j \in 1..Len(n.values) : built_from_allow_list(n.values[j])
      [] n.node = "FormattedValue" -> built_from_allow_list(n.value)
      [] n.node = "Subscript" -> n.value = Name("row") /\ n.slice.node = "Constant"
      [] OTHER -> FALSE

\* C21 as stated: an expression built only from allow-listed constructs,
\* unary minus among them, passes validation and is evaluated: no row gets a
\* validation error, and a row whose evaluation gave a value has that value
\* as its task_id.
C21_AllowListedExpressionEvaluated ==
    (expr_run /\ expr_parsed.ok /\ built_from_allow_list(expr_parsed.tree)) =>
        \A k \in 1..Len(eng.out) :
            /\ expr_outcome(k).stage = "eval"
            /\ ~expr_gave_nothing(expr_outcome(k)) =>
                    eng.out[k].row.task_id = expr_outcome(k).value.s

-----------------------------------------------------------------------------
(* Properties of reading the rows of a source *)

\* C22 as stated: the prepared column names of any header row are pairwise
\* distinct, also when a cell already looks like a suffixed name, so every
\* header cell has its own key in a record and no cell value is overwritten
\* by another column.
C22_HeadersPairwiseDistinct ==
    rd.mode = "stream" =>
        /\ Len(rd.headers) = Len(rd.header_row)
        /\ \A i \in 1..Len(rd.headers) : \A j \in 1..Len(rd.headers) :
                i # j => rd.headers[i] # rd.headers[j]
        /\ \A k \in 1..Len(rd.yielded) :
                Cardinality(DOMAIN rd.yielded[k].record) = Len(rd.header_row)

\* source row j (1-based) of the read as the reader sees it: the record of a
\* sheet row under the prepared headers, an inline row over all the columns
source_record(j) ==
    IF rd.mode = "stream" THEN record_of(rd.headers, rd.data[j])
    ELSE [c \in DatasetColumns(rd.inline) |-> Get(rd.inline[j], c)]

\* C23: in the streaming read and in the in-memory mode a yielded record
\* carries its 1-based position among all source rows plus 1: the yielded
\* rows are the non-blank source rows read so far, in source order, the row
\* numbers are strictly increasing, and a skipped blank row leaves the numbers
\* of the rows after it as they are.
C23_RowNumberIsSourcePosition ==
    rd.mode \in {"stream", "prepared"} =>
        /\ \A k \in 1..Len(rd.yielded) :
                /\ rd.yielded[k].n - 1 \in 1..rd.pos
                /\ rd.yielded[k].record = source_record(rd.yielded[k].n - 1)
                /\ ~row_is_empty(rd.yielded[k].record)
                /\ k > 1 => rd.yielded[k - 1].n < rd.yielded[k].n
        /\ \A j \in 1..rd.pos :
                ~row_is_empty(source_record(j)) =>
                    \E k \in 1..Len(rd.yielded) : rd.yielded[k].n = j + 1

\* the first row of a sheet was blank and skipped, and the second one was
\* yielded as row 3
C23_Witness ==
    /\ rd.mode = "stream"
    /\ rd.pos = 2
    /\ row_is_empty(source_record(1))
    /\ Len(rd.yielded) = 1
    /\ rd.yielded[1].n = 3

-----------------------------------------------------------------------------
(* Properties of the column ordering *)

\* the keys of the flattened records
flattened_keys ==
    UNION {keys_of_pairs(conv.flattened[k]) : k \in 1..Len(conv.flattened)}

\* the keys of the fixed priority list, and the rank of one of them
priority_keys ==
    {"id", "task_id", "taskId", "external_id", "externalId", "title", "name",
     "file", "file_name", "fileName", "media.url"}

priority_rank(key) ==
    CASE key = "id" -> 1 [] key = "task_id" -> 2 [] key = "taskId" -> 3
      [] key = "external_id" -> 4 [] key = "externalId" -> 5 [] key = "title" -> 6
      [] key = "name" -> 7 [] key = "file" -> 8 [] key = "file_name" -> 9
      [] key = "fileName" -> 10 [] key = "media.url" -> 11

\* key a is seen before key b across the records: in an earlier record, or
\* earlier in the first record that has either
first_record_with(key) ==
    CHOOSE k \in 1..Len(conv.flattened) :
        /\ key \in keys_of_pairs(conv.flattened[k])
        /\ \A l \in 1..(k - 1) : key \notin keys_of_pairs(conv.flattened[l])

place_in(pairs, key) == CHOOSE j \in 1..Len(pairs) : pairs[j].key = key

seen_before(a, b) ==
    \/ first_record_with(a) < first_record_with(b)
    \/ /\ first_record_with(a) = first_record_with(b)
       /\ place_in(conv.flattened[first_record_with(a)], a)
            < place_in(conv.flattened[first_record_with(a)], b)

\* C24: the ordered columns are a duplicate-free arrangement of exactly the
\* keys of the flattened records: the keys of the priority list first, in the
\* order of that list, then every other key in the order it was first seen.
C24_ColumnsOrdered ==
    conv.stage = "ordered" =>
        /\ {conv.columns[i] : i \in 1..Len(conv.columns)} = flattened_keys
        /\ Len(conv.columns) = Cardinality(flattened_keys)
        /\ \A i \in 1..Len(conv.columns) : \A j \in (i + 1)..Len(conv.columns) :
                /\ conv.columns[j] \in priority_keys =>
                        /\ conv.columns[i] \in priority_keys
                        /\ priority_rank(conv.columns[i]) < priority_rank(conv.columns[j])
                /\ conv.columns[i] \notin priority_keys =>
                        seen_before(conv.columns[i], conv.columns[j])

\* two priority keys were moved in front of keys seen before them, and put in
\* the order of the list
C24_Witness ==
    /\ conv.stage = "ordered"
    /\ Len(conv.flattened) = 2
    /\ conv.flattened[1] = <<Pair("tags", StrV(""))>>
    /\ conv.flattened[2] = <<Pair("meta.k", StrV("a")), Pair("name", StrV("a")),
                             Pair("id", IntV(2))>>
    /\ conv.columns = <<"id", "name", "tags", "meta.k">>

-----------------------------------------------------------------------------
(* Properties of the mapping suggestion *)

\* the columns whose lowered name is one of the variants
exact_matches(columns, variants) ==
    {columns[k] : k \in {l \in 1..Len(columns) : Lower(columns[l]) \in variants}}

\* the column chosen is one that matches a variant exactly, and is the first
\* column when no column does
exact_or_first(chosen, columns, variants) ==
    IF exact_matches(columns, variants) # {}
    THEN chosen \in exact_matches(columns, variants)
    ELSE chosen = columns[1]

\* C25 as stated: over a non-empty column list the task_name column is a
\* column that exactly matches a name/title variant and otherwise the first
\* column, the file_name column one that exactly matches a file/url variant
\* and otherwise the first column; basename is added exactly when the chosen
\* file column's name has url or path in it; task_id is uuid_v4 generation.
C25_SuggestionExactOrFirst ==
    (rd.mode = "suggested" /\ rd.headers # <<>>) =>
        /\ exact_or_first(rd.mapping.core.task_name.name, rd.headers,
                          {"task_name", "name", "title"})
        /\ exact_or_first(rd.mapping.core.file_name.name, rd.headers,
                          {"file_name", "filename", "file", "media.url", "url"})
        /\ rd.mapping.core.file_name.transforms =
                (IF \E token \in {"url", "path"} :
                        Contains(Lower(rd.mapping.core.file_name.name), token)
                 THEN <<"basename">> ELSE <<>>)
        /\ rd.mapping.core.task_id = GenerateConfig("uuid_v4")

-----------------------------------------------------------------------------
(* Properties of preview against confirm *)

\* a task_id config that names the same ids on every run
deterministic_task_id(mapping) ==
    \/ mapping.core.task_id.mode = "COLUMN"
    \/ /\ mapping.core.task_id.mode = "GENERATE"
       /\ mapping.core.task_id.strategy = "seq_per_batch"

\* what a candidate and a task row have in common, in order
candidate_fields(rows) ==
    [i \in 1..Len(rows) |->
        [task_id |-> rows[i].task_id, task_name |-> rows[i].task_name,
         file_name |-> rows[i].file_name, payload |-> rows[i].payload]]

\* the candidates the scan of a confirm keeps for a workbook under a mapping
scanned_candidates(book, mapping, serial) ==
    IF stream_excel_rows(book, mapping.sheet).ok
    THEN confirm_scan(stream_excel_rows(book, mapping.sheet).rows, 1, mapping, serial,
                      ScanStart).pending
    ELSE <<>>

\* the confirm of worker w has inserted, out of a workbook no larger than the
\* preview limit, every candidate its scan kept under the mapping (nothing
\* was dropped for a task already persisted)
confirmed_under(w, mapping) ==
    /\ wk[w].op = "confirm" /\ wk[w].pc = "done"
    /\ wk[w].resp.status = 200 /\ wk[w].resp.inserted > 0
    /\ wk[w].before.xlsx
    /\ Len(wk[w].before.book.rows) <= PREVIEW_LIMIT
    /\ deterministic_task_id(mapping)
    /\ mapping.sheet # ""
    /\ candidate_fields(scanned_candidates(wk[w].before.book, mapping, wk[w].serial))
            = candidate_fields(wk[w].resp.rows)

\* the candidates preview returns for the workbook the confirm of w read
previewed(w, mapping) ==
    preview_of_excel(
        read_preview_records_from_excel(wk[w].before.book, mapping.sheet, PREVIEW_LIMIT),
        TRUE, mapping, wk[w].serial).rows

\* C26 as stated: for the same workbook, sheet and mapping with a deterministic
\* task_id config, a workbook within the preview limit and no conflicting task
\* persisted, the candidates preview returns are, in order, the task rows
\* confirm inserts, also when the workbook has blank rows or rows resolving to
\* the same task_id.
C26_PreviewEqualsConfirm ==
    \A w \in Workers : \A mapping \in Mappings :
        confirmed_under(w, mapping) =>
            candidate_fields(previewed(w, mapping)) = candidate_fields(wk[w].resp.rows)

-----------------------------------------------------------------------------
(* Properties of the confirm result *)

\* the rows an issue of the list reports as skipped
skipped_rows(issues) ==
    {issues[k].row : k \in issues_with(issues, DuplicateText)
                            \cup issues_with(issues, ExistsText)
                            \cup issues_with(issues, NotSerializableText)}

\* the step from `me` to `after` ends a confirm with a successful response
confirm_succeeded(me, after) ==
    /\ after # me
    /\ after.op = "confirm" /\ after.pc = "done"
    /\ after.resp.status = 200

\* the rows of the source the step inserted: the surviving rows of a commit
inserted_rows(me) ==
    IF me.pc = "commit" THEN {me.pending[i].row : i \in 1..Len(me.pending)} ELSE {}

\* C27: on every successful confirm response inserted + skipped is the number
\* of non-blank source rows the pass processed, and no row is both inserted
\* and reported as skipped.
C27_CountsPartitionRows ==
    [][\A w \in Workers :
            confirm_succeeded(wk[w], wk'[w]) =>
                /\ wk'[w].resp.inserted + wk'[w].resp.skipped = wk'[w].processed
                /\ wk'[w].resp.inserted = Cardinality(inserted_rows(wk[w]))
                /\ inserted_rows(wk[w]) \cap skipped_rows(wk'[w].resp.errors) = {}]_vars

\* a confirm over a workbook with a blank row answered with two rows inserted
\* and one skipped as a duplicate within the upload
C27_Witness ==
    \E w \in Workers :
        /\ wk[w].op = "confirm" /\ wk[w].pc = "done"
        /\ wk[w].resp.status = 200
        /\ Len(wk[w].before.book.rows) = 4
        /\ wk[w].processed = 3
        /\ wk[w].resp.inserted = 2
        /\ wk[w].resp.skipped = 1
        /\ skipped_rows(wk[w].resp.errors) = {3}

-----------------------------------------------------------------------------
(* Properties of the import file of a confirm *)

\* the confirm of `me` has an import file it can store: an upload id whose
\* sidecar exists and whose source (client file or uploaded JSON) is there
storable(me, disk) ==
    /\ me.upload # 0
    /\ disk.meta
    /\ disk.from_client_upload \/ disk.json

\* the import-file records that belong to a task row: same confirm, same project
import_files_of_task(t) ==
    {f \in importFiles : f.id = t.id[1] /\ f.project_id = t.project_id}

confirms_completed == \A w \in Workers : wk[w].pc \in {"idle", "done"}

\* C29 as stated: once the confirms have completed, whether they succeeded,
\* were rolled back as a conflict or failed, every file placed in the permanent
\* import-files directory is the file of a persisted import-file record, and
\* the confirm that placed it is answered with that record's project.
C29_StoredFilesReferenced ==
    confirms_completed =>
        /\ \A name \in permFiles : \E f \in importFiles : f.file_name = name
        /\ \A w \in Workers :
                (wk[w].op = "confirm" /\ wk[w].stored # "") =>
                    \E f \in importFiles :
                        f.file_name = wk[w].stored /\ f.project_id = wk[w].project

-----------------------------------------------------------------------------
(* Quality control: accept_task_qc, reject_task_qc and send_task_for_rework *)
(* of routes/qc_routes.py. Each request has its own session: it reads the  *)
(* task and tests its status, then writes the new status and commits; the  *)
(* requests of two reviewers may be served at the same time.               *)

MaxQcTasks == 2   \* rows of project_tasks under quality control

\* TaskStatus
TaskStatus == {"NEW", "submitted", "qc_pending", "qc_rejected", "qc_accepted", "rework"}

QcTaskIds == 1..MaxQcTasks
Reviewers == {1, 2}

\* the status the handler of an action requires (lines 46, 68, 97)
required_status(action) ==
    CASE action = "accept" -> "submitted"
      [] action = "reject" -> "submitted"
      [] action = "rework" -> "qc_rejected"

\* the status the handler of an action assigns (lines 52, 74, 103)
assigned_status(action) ==
    CASE action = "accept" -> "qc_accepted"
      [] action = "reject" -> "qc_rejected"
      [] action = "rework" -> "rework"

\* a reviewer with no request
IdleReview == [pc |-> "idle", action |-> "none", task_id |-> 0, feedback |-> "",
               code |-> 0]

\* the request up to its status test: 404 for an id no row has, 400 for a row
\* whose status is not the required one, otherwise the row is held for the write
qc_loaded(action, task_id, feedback, status) ==
    IF task_id \notin DOMAIN status
    THEN [pc |-> "done", action |-> action, task_id |-> task_id,
          feedback |-> feedback, code |-> 404]
    ELSE IF status[task_id] # required_status(action)
    THEN [pc |-> "done", action |-> action, task_id |-> task_id,
          feedback |-> feedback, code |-> 400]
    ELSE [pc |-> "loaded", action |-> action, task_id |-> task_id,
          feedback |-> feedback, code |-> 0]

\* the tables the handlers read and write: the status of each task, whether
\* the task has an annotation, and the qc_feedback of its latest annotation
InitQC ==
    /\ tasks = {}
    /\ importFiles = {}
    /\ uploads = [u \in UploadIds |-> NoUpload]
    /\ permFiles = {}
    /\ nextUpload = 0
    /\ nreq = 0
    /\ wk = [w \in Workers |-> Idle]
    /\ eng = NoRun
    /\ conv = NoConversion
    /\ rd = NoRead
    /\ \E status \in [QcTaskIds -> TaskStatus], annotated \in SUBSET QcTaskIds :
            qc = [status |-> status,
                  annotated |-> annotated,
                  qc_feedback |-> [t \in QcTaskIds |-> ""],
                  req |-> [r \in Reviewers |-> IdleReview]]

\* accept_task_qc lines 42-50: the request of reviewer r up to its status test
AcceptTaskQc(r) ==
    /\ qc.req[r].pc \in {"idle", "done"}
    /\ \E task_id \in 1..(MaxQcTasks + 1) :
            qc' = [qc EXCEPT !.req[r] = qc_loaded("accept", task_id, "", qc.status)]
    /\ UNCHANGED <<tasks, importFiles, uploads, permFiles, nextUpload, nreq, wk,
                   eng, conv, rd>>

\* reject_task_qc lines 64-72, payload.feedback absent ("") or given
RejectTaskQc(r) ==
    /\ qc.req[r].pc \in {"idle", "done"}
    /\ \E task_id \in 1..(MaxQcTasks + 1), feedback \in {"", "redo"} :
            qc' = [qc EXCEPT !.req[r] = qc_loaded("reject", task_id, feedback, qc.status)]
    /\ UNCHANGED <<tasks, importFiles, uploads, permFiles, nextUpload, nreq, wk,
                   eng, conv, rd>>

\* send_task_for_rework lines 93-101
SendTaskForRework(r) ==
    /\ qc.req[r].pc \in {"idle", "done"}
    /\ \E task_id \in 1..(MaxQcTasks + 1) :
            qc' = [qc EXCEPT !.req[r] = qc_loaded("rework", task_id, "", qc.status)]
    /\ UNCHANGED <<tasks, importFiles, uploads, permFiles, nextUpload, nreq, wk,
                   eng, conv, rd>>

\* lines 52-53, 74-83, 103-104: the row the request holds gets the new status
\* (UPDATE ... WHERE id = :id), a reject with feedback writes it into the
\* latest annotation of the task, and the session commits; 204
qc_committed(q, r) ==
    [q EXCEPT !.status[q.req[r].task_id] = assigned_status(q.req[r].action),
              !.qc_feedback[q.req[r].task_id] =
                    IF q.req[r].action = "reject" /\ q.req[r].feedback # ""
                       /\ q.req[r].task_id \in q.annotated
                    THEN q.req[r].feedback ELSE @,
              !.req[r].pc = "done", !.req[r].code = 204]

QcCommit(r) ==
    /\ qc.req[r].pc = "loaded"
    /\ qc' = qc_committed(qc, r)
    /\ UNCHANGED <<tasks, importFiles, uploads, permFiles, nextUpload, nreq, wk,
                   eng, conv, rd>>

NextQC ==
    \/ \E r \in Reviewers : AcceptTaskQc(r)
    \/ \E r \in Reviewers : RejectTaskQc(r)
    \/ \E r \in Reviewers : SendTaskForRework(r)
    \/ \E r \in Reviewers : QcCommit(r)

SpecQC == InitQC /\ [][NextQC]_vars

-----------------------------------------------------------------------------
(* Properties of the review cycle *)

\* the step changes the status of task t only along the review cycle
cycle_step(before, after) ==
    /\ after \in {"qc_accepted", "qc_rejected"} => before = "submitted"
    /\ after = "rework" => before = "qc_rejected"
    /\ after \in {"qc_accepted", "qc_rejected", "rework"}

\* C30 as stated: accept and reject change a task's status (to qc_accepted,
\* to qc_rejected) only when its current status is submitted, rework (to
\* rework) only when it is qc_rejected; a request answered with an error
\* leaves every status as it was; so a task becomes qc_accepted or
\* qc_rejected only out of submitted.
C30_ReviewCycleEnforced ==
    [][/\ \A t \in QcTaskIds :
            qc'.status[t] # qc.status[t] => cycle_step(qc.status[t], qc'.status[t])
       /\ \A r \in Reviewers :
            (qc'.req[r] # qc.req[r] /\ qc'.req[r].code \in {400, 404}) =>
                qc'.status = qc.status]_vars

====
